---------------------------- MODULE Spec2Model ----------------------------
(***************************************************************************)
(* A model of the ThotsakanStatistics workbench: the session object, the   *)
(* controllers (descriptive statistics, hypothesis testing, linear         *)
(* regression), the core regression routine, the tab callbacks that call   *)
(* them, the category filter and the rounding check of core/.              *)
(*                                                                         *)
(* Texts are sequences of one-character strings, numbers read from a text  *)
(* are exact decimal fractions [num, den], a dataframe is a dtype per      *)
(* column and a sequence of rows that keep their index label.              *)
(***************************************************************************)
EXTENDS Integers, Sequences, FiniteSets, TLC

VARIABLES
    state,       \* the AppState session object
    inp,         \* what the user has entered: the inputs of the next calls
    last,        \* the last call made: its operation, arguments and outcome
    core_files,  \* the Python files under core/: name -> content
    ui           \* the components on screen: their values and visibility

vars == <<state, inp, last, core_files, ui>>

(***************************************************************************)
(* Bounds of the model                                                     *)
(***************************************************************************)
MaxAlphaLen == 3     \* longest confidence-level text
MaxRangeLen == 3     \* longest x-range text
MaxProbsLen == 5     \* longest comma-separated list text
MaxRows == 2         \* most rows of a dataset
MaxFileLen == 3      \* most tokens of a file under core/

(***************************************************************************)
(* Optional values (Python's None) and call outcomes                       *)
(***************************************************************************)
None == <<>>
Some(x) == <<x>>
IsNone(o) == o = <<>>
Get(o) == o[1]

\* A call returns a value or raises; fx is the set of routines the call had
\* entered when it ended, handed what it passed to the routine it entered last.
Ok(v) == [ok |-> TRUE, val |-> v, err |-> "", exc |-> "", fx |-> {}, handed |-> None]
Raise(exc, msg) ==
    [ok |-> FALSE, val |-> None, err |-> msg, exc |-> exc, fx |-> {}, handed |-> None]
With(r, fx, handed) == [r EXCEPT !.fx = fx, !.handed = handed]

(***************************************************************************)
(* Exact decimal numbers                                                   *)
(***************************************************************************)
Num(n, d) == [num |-> n, den |-> d]
Lt(a, b) == a.num * b.den < b.num * a.den
Le(a, b) == a.num * b.den <= b.num * a.den
NumEq(a, b) == a.num * b.den = b.num * a.den
Zero == Num(0, 1)
One == Num(1, 1)
OneMinus(a) == Num(a.den - a.num, a.den)

RECURSIVE Pow10(_)
Pow10(k) == IF k = 0 THEN 1 ELSE 10 * Pow10(k - 1)

(***************************************************************************)
(* Texts                                                                   *)
(***************************************************************************)
Texts(alphabet, n) == UNION {[1..k -> alphabet] : k \in 0..n}

Digits == {"0", "1", "2", "3", "4", "5", "6", "7", "8", "9"}
DigitVal(c) ==
    CASE c = "0" -> 0 [] c = "1" -> 1 [] c = "2" -> 2 [] c = "3" -> 3
      [] c = "4" -> 4 [] c = "5" -> 5 [] c = "6" -> 6 [] c = "7" -> 7
      [] c = "8" -> 8 [] c = "9" -> 9

RECURSIVE DigitsVal(_)
DigitsVal(s) ==
    IF s = <<>> THEN 0
    ELSE 10 * DigitsVal(SubSeq(s, 1, Len(s) - 1)) + DigitVal(s[Len(s)])

RECURSIVE LStrip(_)
LStrip(s) == IF s # <<>> /\ Head(s) = " " THEN LStrip(Tail(s)) ELSE s

RECURSIVE RStrip(_)
RStrip(s) ==
    IF s # <<>> /\ s[Len(s)] = " " THEN RStrip(SubSeq(s, 1, Len(s) - 1)) ELSE s

\* str.strip()
Strip(s) == LStrip(RStrip(s))

\* str.split(","): the parts between the commas, empty parts included
RECURSIVE SplitComma(_)
SplitComma(s) ==
    IF \A i \in 1..Len(s) : s[i] # ","
    THEN <<s>>
    ELSE LET i == CHOOSE j \in 1..Len(s) :
                      s[j] = "," /\ \A k \in 1..(j - 1) : s[k] # ","
         IN  <<SubSeq(s, 1, i - 1)>> \o SplitComma(SubSeq(s, i + 1, Len(s)))

FloatOfAnything(text) == [ok |-> TRUE, val |-> Zero]

\* float(text) on texts of digits, ".", a sign and blanks: surrounding blanks
\* are ignored, then [sign] digits [. digits] with at least one digit.
\* ok = FALSE is Python's ValueError.
PyFloat(text) ==
    LET Unsigned(body, neg) ==
            LET dots == {i \in 1..Len(body) : body[i] = "."}
                wellformed ==
                    /\ \A i \in 1..Len(body) : body[i] \in Digits \cup {"."}
                    /\ Cardinality(dots) <= 1
                    /\ \E i \in 1..Len(body) : body[i] \in Digits
                d == IF dots = {} THEN Len(body) + 1
                     ELSE CHOOSE i \in dots : TRUE
                frac == SubSeq(body, d + 1, Len(body))
                Value(mag) == Num(IF neg THEN 0 - mag ELSE mag, Pow10(Len(frac)))
            IN  IF ~wellformed THEN [ok |-> FALSE, val |-> Zero]
                ELSE [ok |-> TRUE,
                      val |-> Value(DigitsVal(SubSeq(body, 1, d - 1) \o frac))]
        Signed(t) ==
            IF t # <<>> /\ Head(t) \in {"-", "+"}
            THEN Unsigned(Tail(t), Head(t) = "-")
            ELSE Unsigned(t, FALSE)
    IN  Signed(Strip(text))


(***************************************************************************)
(* Dataframes: a dtype per column and rows that keep their index label.    *)
(* A cell is NaN or <<v>>; a series is a dtype and items [idx, v].         *)
(***************************************************************************)
NaN == <<>>
V(n) == <<n>>

Columns(df) == DOMAIN df.dtype
IsEmpty(df) == df.rows = <<>>

\* df[c]
Col(df, c) ==
    [dtype |-> df.dtype[c],
     items |-> [i \in 1..Len(df.rows) |->
                   [idx |-> df.rows[i].idx, v |-> df.rows[i].cells[c]]]]

\* series.dropna()
DropNa(s) == [s EXCEPT !.items = SelectSeq(s.items, LAMBDA it : it.v # NaN)]

\* series.values / series.to_numpy()
Values(s) == [i \in 1..Len(s.items) |-> s.items[i].v]
Index(s) == [i \in 1..Len(s.items) |-> s.items[i].idx]

DropNaSelect(df, cols) ==
    [dtype |-> [c \in cols |-> df.dtype[c]],
     rows |-> LET complete == SelectSeq(df.rows,
                      LAMBDA r : \A c \in DOMAIN r.cells : r.cells[c] # NaN)
              IN  [i \in 1..Len(complete) |->
                      [idx |-> complete[i].idx,
                       cells |-> [c \in cols |-> complete[i].cells[c]]]]]

\* df[cols].dropna(): the columns cols, the rows complete in them
SelectDropNa(df, cols) ==
    [dtype |-> [c \in cols |-> df.dtype[c]],
     rows |-> LET complete == SelectSeq(df.rows,
                      LAMBDA r : \A c \in cols : r.cells[c] # NaN)
              IN  [i \in 1..Len(complete) |->
                      [idx |-> complete[i].idx,
                       cells |-> [c \in cols |-> complete[i].cells[c]]]]]

\* df[df[c].isin(vals)]: NaN is in no selection
FilterIsIn(df, c, vals) ==
    [df EXCEPT !.rows = SelectSeq(df.rows,
        LAMBDA r : r.cells[c] # NaN /\ r.cells[c][1] \in vals)]

\* df.loc[index, c]: the cells of column c at the rows labelled by index
Loc(df, index, c) ==
    [dtype |-> df.dtype[c],
     items |-> [i \in 1..Len(index) |->
        LET row == CHOOSE r \in {df.rows[k] : k \in 1..Len(df.rows)} :
                       r.idx = index[i]
        IN  [idx |-> index[i], v |-> row.cells[c]]]]

\* pd.api.types.is_numeric_dtype
IsNumericDtype(s) == s.dtype = "num"

SeqToSet(s) == {s[i] : i \in 1..Len(s)}

\* rows.sort_values(x): stable insertion sort on the value of column x
InsertBy(r, sorted, x) ==
    LET k == Cardinality({i \in 1..Len(sorted) :
                 sorted[i].cells[x][1] <= r.cells[x][1]})
    IN  SubSeq(sorted, 1, k) \o <<r>> \o SubSeq(sorted, k + 1, Len(sorted))

RECURSIVE SortBy(_, _)
SortBy(rows, x) ==
    IF rows = <<>> THEN <<>>
    ELSE InsertBy(rows[Len(rows)], SortBy(SubSeq(rows, 1, Len(rows) - 1), x), x)

ColMin(df, x) ==
    CHOOSE m \in {df.rows[i].cells[x][1] : i \in 1..Len(df.rows)} :
        \A i \in 1..Len(df.rows) : m <= df.rows[i].cells[x][1]
ColMax(df, x) ==
    CHOOSE m \in {df.rows[i].cells[x][1] : i \in 1..Len(df.rows)} :
        \A i \in 1..Len(df.rows) : m >= df.rows[i].cells[x][1]

\* All dataframes of at most n rows whose column c has dtype dtype[c] and
\* cells in cells[c]; row i carries the index label i - 1 (a RangeIndex).
CellRows(cells) ==
    {f \in [DOMAIN cells -> UNION {cells[c] : c \in DOMAIN cells}] :
        \A c \in DOMAIN cells : f[c] \in cells[c]}
DataFrames(dtype, cells, n) ==
    {[dtype |-> dtype,
      rows |-> [i \in 1..Len(body) |-> [idx |-> i - 1, cells |-> body[i]]]] :
        body \in UNION {[1..k -> CellRows(cells)] : k \in 0..n}}

(***************************************************************************)
(* controllers/linear_regression_controller.py: the parsers                *)
(***************************************************************************)
LinspacePoints == 100

\* The dataset the regression controller works on
_select_working_dataframe(df, filtered_df) ==
    IF IsNone(df) THEN Raise("ValueError", "No dataset loaded.")
    ELSE IF ~IsNone(filtered_df) /\ ~IsEmpty(Get(filtered_df))
         THEN Ok(Get(filtered_df))
    ELSE IF IsEmpty(Get(df)) THEN Raise("ValueError", "The dataset is empty.")
    ELSE Ok(Get(df))

LevelInClosedRange(level) == Le(Zero, level) /\ Le(level, One)

\* "0 < level < 1" of the controller
LevelInRange(level) == Lt(Zero, level) /\ Lt(level, One)

\* A confidence-level text to the significance level alpha
_parse_confidence_level(text) ==
    LET Check(s, f) ==
            IF s = <<>>
            THEN Raise("ValueError", "Confidence level is required (e.g. 0.95).")
            ELSE IF ~f.ok
            THEN Raise("ValueError",
                       "Confidence level must be a numeric value between 0 and 1.")
            ELSE IF ~LevelInRange(f.val)
            THEN Raise("ValueError",
                       "Confidence level must be between 0 and 1 (e.g. 0.95).")
            ELSE Ok(OneMinus(f.val))
        Stripped(s) == Check(s, PyFloat(s))
    IN  Stripped(Strip(text))

LinspaceOpen(lo, hi, n) ==
    [kind |-> "linspace", first |-> lo, last |-> hi, n |-> n - 1]

\* np.linspace(lo, hi, n), kept as its end points and its length
Linspace(lo, hi, n) == [kind |-> "linspace", first |-> lo, last |-> hi, n |-> n]

\* A range text 'min, max' to the prediction grid, None for a blank text
_parse_range(text) ==
    LET Bounds(lo, hi) ==
            IF ~lo.ok \/ ~hi.ok
            THEN Raise("ValueError",
                       "Range values must be numeric (e.g. '0, 10').")
            ELSE IF Le(hi.val, lo.val)
            THEN Raise("ValueError",
                       "Range minimum must be strictly less than the maximum.")
            ELSE Ok(Some(Linspace(lo.val, hi.val, LinspacePoints)))
        Parts(s, parts) ==
            IF s = <<>> THEN Ok(None)
            ELSE IF Len(parts) # 2
            THEN Raise("ValueError", "Range must have the form 'min, max'.")
            ELSE Bounds(PyFloat(Strip(parts[1])), PyFloat(Strip(parts[2])))
        Stripped(s) == Parts(s, SplitComma(s))
    IN  Stripped(Strip(text))

(***************************************************************************)
(* core/linear_regression.py                                               *)
(***************************************************************************)
XFirst(xp) == IF xp.kind = "linspace" THEN xp.first ELSE xp.vals[1]
XLast(xp) == IF xp.kind = "linspace" THEN xp.last ELSE xp.vals[Len(xp.vals)]

\* ax.axvspan(a, b): the band drawn between the two abscissas, whichever
\* is the smaller
axvspan(a, b) == IF Le(a, b) THEN [lo |-> a, hi |-> b] ELSE [lo |-> b, hi |-> a]

\* The bands plot_simple_regression draws over a grid x_plot
ExtrapolationSpans(data, x, x_plot) ==
    LET xmin == Num(ColMin(data, x), 1)
        xmax == Num(ColMax(data, x), 1)
    IN  <<axvspan(XFirst(x_plot), xmin), axvspan(xmax, XLast(x_plot))>>

plot_simple_regression(data, x, y, intercept, use_formula, formula_latex, alpha, show_ci, show_pi, fit_to_obs, x_vector) ==
    LET Draw(x_plot) ==
            Ok([kind |-> "Simple Regression",
                x_plot |-> x_plot,
                const |-> ~use_formula /\ intercept,
                alpha |-> alpha,
                ci |-> show_ci,
                pi |-> show_pi,
                spans |-> IF ~fit_to_obs
                          THEN ExtrapolationSpans(data, x, x_plot)
                          ELSE <<>>,
                latex_title |-> use_formula /\ formula_latex # ""])
        Observed(work) ==
            [kind |-> "observed",
             vals |-> [i \in 1..Len(work) |-> Num(work[i].cells[x][1], 1)]]
    IN  IF fit_to_obs
        THEN Draw(Observed(SortBy(SelectDropNa(data, {x, y}).rows, x)))
        ELSE IF IsNone(x_vector)
        THEN Raise("ValueError",
                   "x_vector must be provided when 'fit_to_obs' is False.")
        ELSE Draw(Get(x_vector))

plot_observed_vs_predicted(data, y, alpha) ==
    Ok([kind |-> "Observed vs Predicted", alpha |-> alpha,
        rows |-> [i \in 1..Len(data.rows) |-> data.rows[i].idx]])

\* The graph step of the core routine, entered once the model is fitted and
\* its summary built
CoreGraph(data, a, alpha, x_vector, use_formula) ==
    LET Fitted(r, entered) == With(r, {"ols_fit", "summary2"} \cup entered, None)
        Wrap(fig) == IF fig.ok THEN Ok(Some(fig.val)) ELSE fig
    IN  IF ~a.graph_check THEN Fitted(Ok(None), {})
        ELSE IF a.graph_type = "Simple Regression"
        THEN IF Len(a.independent_vars) # 1
             THEN Fitted(Raise("ValueError",
                      "Simple Regression graph is only available with exactly one independent variable."),
                      {})
             ELSE Fitted(Wrap(plot_simple_regression(data,
                             a.independent_vars[1], Get(a.dependent_var),
                             a.intercept, use_formula, a.formula_latex, alpha,
                             a.show_ci, a.show_pi, a.fit_to_obs, x_vector)),
                         {"plot_simple_regression"})
        ELSE IF a.graph_type = "Observed vs Predicted"
        THEN Fitted(Wrap(plot_observed_vs_predicted(data, Get(a.dependent_var),
                                                    alpha)),
                    {"plot_observed_vs_predicted"})
        ELSE Fitted(Raise("ValueError", "Unknown graph type"), {})

DesignWithFlag(data, a) ==
    [use_formula |-> a.formula_check,
     formula |-> IF a.formula_check THEN a.formula_text ELSE "",
     const |-> a.intercept,
     y |-> Get(a.dependent_var),
     X |-> a.independent_vars,
     rows |-> [i \in 1..Len(data.rows) |-> data.rows[i].idx]]

\* The design handed to statsmodels: formula or explicit columns, and the rows
Design(data, a) ==
    [use_formula |-> a.formula_check,
     formula |-> IF a.formula_check THEN a.formula_text ELSE "",
     const |-> ~a.formula_check /\ a.intercept,
     y |-> Get(a.dependent_var),
     X |-> a.independent_vars,
     rows |-> [i \in 1..Len(data.rows) |-> data.rows[i].idx]]

\* core run_linear_regression; a holds the call's arguments, df the dataset
\* (None or a dataframe), fit_raises whether statsmodels raises in the fit
CoreRunLinearRegression(df, a, alpha, x_vector, fit_raises) ==
    LET Result(model, graph) ==
            IF ~graph.ok THEN With(graph, graph.fx, Some(model))
            ELSE With(Ok([summary_html |-> [model |-> model, alpha |-> alpha],
                          params |-> [kind |-> "coefficients", model |-> model,
                                      alpha |-> alpha, decimals |-> None],
                          fig |-> graph.val]),
                      graph.fx, Some(model))
        Fit(data, model) ==
            IF IsEmpty(data)
            THEN Raise("ValueError",
                       "No valid rows remaining after dropping missing values.")
            ELSE IF a.formula_check /\ a.formula_text = ""
            THEN Raise("ValueError",
                       "Formula is enabled but no formula text was provided.")
            ELSE IF fit_raises
            THEN With(Raise("LibraryError", "statsmodels"), {"ols_fit"},
                      Some(model))
            ELSE Result(model,
                        CoreGraph(data, a, alpha, x_vector, a.formula_check))
        Rows(data) == Fit(data, Design(data, a))
    IN  IF IsNone(df) \/ IsEmpty(Get(df))
        THEN Raise("ValueError", "No dataset loaded.")
        ELSE IF IsNone(a.dependent_var)
                \/ Get(a.dependent_var) \notin Columns(Get(df))
        THEN Raise("ValueError", "Invalid dependent variable selection.")
        ELSE IF \E i \in 1..Len(a.independent_vars) :
                    a.independent_vars[i] \notin Columns(Get(df))
        THEN Raise("ValueError", "Invalid independent variable")
        ELSE IF Len(a.independent_vars) = 0
        THEN Raise("ValueError",
                   "At least one independent variable is required.")
        ELSE Rows(SelectDropNa(Get(df),
                 {Get(a.dependent_var)} \cup SeqToSet(a.independent_vars)))

(***************************************************************************)
(* controllers/linear_regression_controller.py: run_linear_regression      *)
(***************************************************************************)
\* table.round(decimals)
RoundTable(table, decimals) == [table EXCEPT !.decimals = Some(decimals)]

CtlAlwaysParsesRange(st, df, filtered_df, a, fit_raises) ==
    LET simple == a.graph_check /\ a.graph_type = "Simple Regression"
        Returned(working, alpha, x_vector, core) ==
            With(IF ~core.ok THEN core
                 ELSE Ok([summary_html |-> core.val.summary_html,
                          params |-> RoundTable(core.val.params,
                                                st.display_precision),
                          fig |-> core.val.fig]),
                 core.fx \cup {"core.run_linear_regression"},
                 Some([df |-> working, alpha |-> alpha, x_vector |-> x_vector,
                       design |-> core.handed]))
        Ranged(working, alpha, x_vector) ==
            IF ~x_vector.ok THEN x_vector
            ELSE Returned(working, alpha, x_vector.val,
                     CoreRunLinearRegression(Some(working), a, alpha,
                                             x_vector.val, fit_raises))
        Levelled(working, alpha) ==
            IF ~alpha.ok THEN alpha
            ELSE Ranged(working, alpha.val,
                     _parse_range(a.x_range_text))
        Selected(working) ==
            IF ~working.ok THEN working
            ELSE IF IsNone(a.dependent_var) \/ a.dependent_var = Some("")
            THEN Raise("ValueError", "Please select a dependent variable.")
            ELSE IF Len(a.independent_vars) = 0
            THEN Raise("ValueError",
                       "Please select at least one independent variable.")
            ELSE IF simple /\ Len(a.independent_vars) # 1
            THEN Raise("ValueError",
                       "The 'Simple Regression' graph is only available when exactly one independent variable is selected.")
            ELSE Levelled(working.val, _parse_confidence_level(a.alpha_input))
    IN  Selected(_select_working_dataframe(df, filtered_df))

CtlRunLinearRegression(st, df, filtered_df, a, fit_raises) ==
    LET simple == a.graph_check /\ a.graph_type = "Simple Regression"
        Returned(working, alpha, x_vector, core) ==
            With(IF ~core.ok THEN core
                 ELSE Ok([summary_html |-> core.val.summary_html,
                          params |-> RoundTable(core.val.params,
                                                st.display_precision),
                          fig |-> core.val.fig]),
                 core.fx \cup {"core.run_linear_regression"},
                 Some([df |-> working, alpha |-> alpha, x_vector |-> x_vector,
                       design |-> core.handed]))
        Ranged(working, alpha, x_vector) ==
            IF ~x_vector.ok THEN x_vector
            ELSE Returned(working, alpha, x_vector.val,
                     CoreRunLinearRegression(Some(working), a, alpha,
                                             x_vector.val, fit_raises))
        Levelled(working, alpha) ==
            IF ~alpha.ok THEN alpha
            ELSE Ranged(working, alpha.val,
                     IF simple /\ ~a.fit_to_obs
                     THEN _parse_range(a.x_range_text)
                     ELSE Ok(None))
        Selected(working) ==
            IF ~working.ok THEN working
            ELSE IF IsNone(a.dependent_var) \/ a.dependent_var = Some("")
            THEN Raise("ValueError", "Please select a dependent variable.")
            ELSE IF Len(a.independent_vars) = 0
            THEN Raise("ValueError",
                       "Please select at least one independent variable.")
            ELSE IF simple /\ Len(a.independent_vars) # 1
            THEN Raise("ValueError",
                       "The 'Simple Regression' graph is only available when exactly one independent variable is selected.")
            ELSE Levelled(working.val, _parse_confidence_level(a.alpha_input))
    IN  Selected(_select_working_dataframe(df, filtered_df))

(***************************************************************************)
(* ui/tabs/estimation/inference_tab.py                                     *)
(***************************************************************************)
\* sorted(vals) on numbers
InsertNum(v, sorted) ==
    LET k == Cardinality({i \in 1..Len(sorted) : Le(sorted[i], v)})
    IN  SubSeq(sorted, 1, k) \o <<v>> \o SubSeq(sorted, k + 1, Len(sorted))

RECURSIVE Sorted(_)
Sorted(vals) ==
    IF vals = <<>> THEN <<>>
    ELSE InsertNum(vals[Len(vals)], Sorted(SubSeq(vals, 1, Len(vals) - 1)))

\* [float(p.strip()) for p in text.split(",") if p.strip()]
FloatList(text) ==
    LET Floats(fs) ==
            [ok |-> \A i \in 1..Len(fs) : fs[i].ok,
             vals |-> [i \in 1..Len(fs) |-> fs[i].val]]
        Parts(parts) ==
            Floats([i \in 1..Len(parts) |-> PyFloat(Strip(parts[i]))])
    IN  Parts(SelectSeq(SplitComma(text), LAMBDA p : Strip(p) # <<>>))

\* What parse_probs does with the parsed levels before it returns them
ProbsOrder(vals) == Sorted(vals)

parse_probs(text) ==
    LET Check(l) ==
            IF ~l.ok
            THEN Raise("gr.Error",
                       "Confidence levels must be numeric, comma-separated values.")
            ELSE IF l.vals = <<>>
            THEN Raise("gr.Error", "Provide at least one confidence level.")
            ELSE IF \E i \in 1..Len(l.vals) :
                        ~(Lt(Zero, l.vals[i]) /\ Lt(l.vals[i], One))
            THEN Raise("gr.Error", "All confidence levels must be in (0, 1).")
            ELSE Ok(ProbsOrder(l.vals))
    IN  Check(FloatList(text))

parse_margin_pair(text) ==
    LET Check(l) ==
            IF ~l.ok
            THEN Raise("gr.Error", "must be numeric, comma-separated values.")
            ELSE IF Len(l.vals) # 2
            THEN Raise("gr.Error", "must have exactly two values.")
            ELSE IF \E i \in 1..2 : Lt(l.vals[i], Zero)
            THEN Raise("gr.Error", "must be non-negative.")
            ELSE Ok(l.vals)
    IN  Check(FloatList(text))

\* The weights the inference tab hands over with the sample
InferenceWeights(df, weights_col) ==
    IF IsNone(weights_col) \/ weights_col = Some("") THEN None
    ELSE Some(Col(df, Get(weights_col)))

UiFigureRowShown(table, table_visible, fig, fig_visible) ==
    [output_table |-> [value |-> table, visible |-> table_visible],
     download_row |-> [visible |-> table_visible],
     output_plot |-> [value |-> fig, visible |-> fig_visible],
     fig_download_row |-> [visible |-> TRUE]]

\* The four updates a run returns: table, its download row, plot, its row
InferenceUi(table, table_visible, fig, fig_visible) ==
    [output_table |-> [value |-> table, visible |-> table_visible],
     download_row |-> [visible |-> table_visible],
     output_plot |-> [value |-> fig, visible |-> fig_visible],
     fig_download_row |-> [visible |-> fig_visible]]

\* The arguments on_run hands to the inference controllers
InferenceHanded(a, data, alpha, weights) ==
    [data |-> data, alpha |-> alpha, weights |-> weights,
     mean_estimator |-> a.mean_est, opts |-> a.opts]

\* Confidence Regions mode of on_run, from the parsing of the levels on;
\* env says which of the inference controllers raise.
InferenceRegions(st, a, env, data, alpha, weights) ==
    LET Run(handed, fig, table) ==
            IF env.cr_raises
            THEN [res |-> With(Raise("ControllerError", "run_confidence_regions"),
                               {"run_confidence_regions"}, handed),
                  state |-> st]
            ELSE IF ~a.cr_add_ci
            THEN [res |-> With(Ok(InferenceUi(None, FALSE, fig, TRUE)),
                               {"run_confidence_regions"}, handed),
                  state |-> [st EXCEPT !.export_figure = fig,
                                       !.export_table = None]]
            ELSE IF env.ci_raises
            THEN [res |-> With(Raise("ControllerError",
                                     "run_confidence_intervals"),
                               {"run_confidence_regions",
                                "run_confidence_intervals"}, handed),
                  state |-> [st EXCEPT !.export_figure = fig]]
            ELSE [res |-> With(Ok(InferenceUi(table, TRUE, fig, TRUE)),
                               {"run_confidence_regions",
                                "run_confidence_intervals"}, handed),
                  state |-> [st EXCEPT !.export_figure = fig,
                                       !.export_table = table]]
        Parsed(probs, eps_mu, eps_sigma) ==
            IF ~probs.ok THEN [res |-> probs, state |-> st]
            ELSE IF ~eps_mu.ok THEN [res |-> eps_mu, state |-> st]
            ELSE IF ~eps_sigma.ok THEN [res |-> eps_sigma, state |-> st]
            ELSE Run(Some([data |-> data, alpha |-> alpha, weights |-> weights,
                           mean_estimator |-> a.mean_est, opts |-> a.opts,
                           probs |-> probs.val, eps_mu |-> eps_mu.val,
                           eps_sigma |-> eps_sigma.val,
                           add_ci_box |-> a.cr_add_ci]),
                     Some([kind |-> "confidence_regions", probs |-> probs.val]),
                     Some([kind |-> "ci", alpha |-> alpha]))
    IN  Parsed(parse_probs(a.cr_probs_text),
               parse_margin_pair(a.cr_eps_mu_text),
               parse_margin_pair(a.cr_eps_sigma_text))

\* The interval modes of on_run
InferenceIntervals(st, a, env, data, alpha, weights) ==
    LET want_ci == a.estimation_type \in
            {"Confidence Intervals", "Confidence and Prediction Intervals"}
        want_pi == a.estimation_type \in
            {"Prediction Intervals", "Confidence and Prediction Intervals"}
        fx == (IF want_ci THEN {"run_confidence_intervals"} ELSE {})
              \cup (IF want_pi /\ ~(want_ci /\ env.ci_raises)
                    THEN {"run_prediction_intervals"} ELSE {})
        handed == Some(InferenceHanded(a, data, alpha, weights))
        table == Some([kind |-> "intervals", ci |-> want_ci, pi |-> want_pi,
                       alpha |-> alpha])
    IN  IF want_ci /\ env.ci_raises
        THEN [res |-> With(Raise("ControllerError", "run_confidence_intervals"),
                           fx, handed),
              state |-> st]
        ELSE IF want_pi /\ env.pi_raises
        THEN [res |-> With(Raise("ControllerError", "run_prediction_intervals"),
                           fx, handed),
              state |-> st]
        ELSE IF ~want_ci /\ ~want_pi
        THEN [res |-> Raise("ValueError", "No objects to concatenate"),
              state |-> st]
        ELSE [res |-> With(Ok(InferenceUi(table, TRUE, None, FALSE)), fx, handed),
              state |-> [st EXCEPT !.export_table = table,
                                   !.export_figure = None]]

\* on_run of the Statistical Inference tab: the outcome and the new session
InferenceOnRun(st, a, env) ==
    LET Estimate(df, alpha) ==
            IF IsNone(a.column) \/ Get(a.column) \notin Columns(df)
            THEN [res |-> Raise("KeyError", "column"), state |-> st]
            ELSE IF ~IsNone(a.weights_col) /\ a.weights_col # Some("")
                    /\ Get(a.weights_col) \notin Columns(df)
            THEN [res |-> Raise("KeyError", "weights_col"), state |-> st]
            ELSE IF a.mean_est = "Weighted Mean"
                    /\ (IsNone(a.weights_col) \/ a.weights_col = Some(""))
            THEN [res |-> Raise("gr.Error", "You selected 'Weighted Mean'."),
                  state |-> st]
            ELSE IF a.estimation_type = "Confidence Regions"
            THEN InferenceRegions(st, a, env, DropNa(Col(df, Get(a.column))),
                                  alpha, InferenceWeights(df, a.weights_col))
            ELSE InferenceIntervals(st, a, env, DropNa(Col(df, Get(a.column))),
                                    alpha, InferenceWeights(df, a.weights_col))
        Level(df, conf) ==
            IF ~conf.ok \/ ~(Lt(Zero, conf.val) /\ Lt(conf.val, One))
            THEN [res |-> Raise("gr.Error", "Confidence level must be in (0, 1)."),
                  state |-> st]
            ELSE Estimate(df, OneMinus(conf.val))
        Loaded(dfo) ==
            IF IsNone(dfo)
            THEN [res |-> Raise("gr.Error", "No dataset loaded."), state |-> st]
            ELSE Level(Get(dfo), PyFloat(a.alpha_text))
    IN  Loaded(IF ~IsNone(st.filtered_df) THEN st.filtered_df ELSE st.df)

(***************************************************************************)
(* controllers/estimation/descriptive_controller.py                        *)
(***************************************************************************)
\* The weights the descriptive controller pairs with the sample series
DescriptiveWeights(df, series, weights_col) ==
    Loc(df, Index(series), weights_col)

NeverNegative(s) == FALSE

\* (weights < 0).any()
AnyNegative(s) ==
    \E i \in 1..Len(s.items) : s.items[i].v # NaN /\ s.items[i].v[1] < 0

\* run_descriptive_statistics; core_raises says whether
\* compute_descriptive_statistics raises on what it is handed
CtlRunDescriptive(st, df, a, core_raises) ==
    LET Compute(series, weights) ==
            With(IF core_raises
                 THEN Raise("CoreError", "compute_descriptive_statistics")
                 ELSE Ok(RoundTable([kind |-> "descriptive",
                                     quantiles |-> a.quantile_probs,
                                     decimals |-> None],
                                    st.display_precision)),
                 {"compute_descriptive_statistics"},
                 Some([data |-> series.items,
                       quantile_probs |-> a.quantile_probs,
                       trim_alpha |-> a.trim_alpha,
                       winsor_limits |-> a.winsor_limits,
                       weights |-> IF IsNone(weights) THEN None
                                   ELSE Some(Get(weights).items)]))
        Weighted(series, weights) ==
            IF ~IsNumericDtype(weights)
            THEN Raise("ValueError", "Weights must be numeric.")
            ELSE IF AnyNegative(weights)
            THEN Raise("ValueError", "Weights must be non-negative.")
            ELSE Compute(series, Some(weights))
        Sample(series) ==
            IF series.items = <<>>
            THEN Raise("ValueError", "Selected column has no valid data.")
            ELSE IF ~IsNumericDtype(series)
            THEN Raise("ValueError", "Selected column must be numeric.")
            ELSE IF IsNone(a.weights_col) \/ a.weights_col = Some("")
            THEN Compute(series, None)
            ELSE IF Get(a.weights_col) \notin Columns(Get(df))
            THEN Raise("ValueError", "Weights column not found.")
            ELSE Weighted(series,
                     DescriptiveWeights(Get(df), series, Get(a.weights_col)))
    IN  IF IsNone(df) THEN Raise("ValueError", "No dataset loaded.")
        ELSE IF IsNone(a.column) \/ Get(a.column) \notin Columns(Get(df))
        THEN Raise("ValueError", "Column not found.")
        ELSE Sample(DropNa(Col(Get(df), Get(a.column))))

(***************************************************************************)
(* ui/tabs/estimation/descriptive_tab.py                                   *)
(***************************************************************************)
parse_quantiles(text) ==
    LET Check(l) ==
            IF ~l.ok
            THEN Raise("ValueError", "could not convert string to float")
            ELSE Ok(l.vals)
    IN  Check(FloatList(text))

parse_trim(text) ==
    LET Check(f) ==
            IF ~f.ok
            THEN Raise("ValueError", "could not convert string to float")
            ELSE Ok(Some(f.val))
    IN  IF Strip(text) = <<>> THEN Ok(None) ELSE Check(PyFloat(text))

parse_winsor(text) ==
    LET Check(fs) ==
            IF \E k \in 1..Len(fs) : ~fs[k].ok
            THEN Raise("ValueError", "could not convert string to float")
            ELSE IF Len(fs) # 2
            THEN Raise("ValueError", "Winsor limits must be two values.")
            ELSE Ok(Some([k \in 1..2 |-> fs[k].val]))
        Parts(parts) ==
            Check([k \in 1..Len(parts) |-> PyFloat(Strip(parts[k]))])
    IN  IF Strip(text) = <<>> THEN Ok(None) ELSE Parts(SplitComma(text))

\* How run_descriptive_statistics may be called: its parameters are all
\* keyword-only, a positional argument is a TypeError before its body runs
DescriptiveCall(positional, outcome) ==
    IF positional > 0
    THEN Raise("TypeError",
               "run_descriptive_statistics() takes 0 positional arguments")
    ELSE outcome

\* on_run of the Descriptive Statistics tab: the outcome and the new session
DescriptiveOnRun(st, a, core_raises) ==
    LET Shown(stats) ==
            IF ~stats.ok THEN [res |-> stats, state |-> st]
            ELSE [res |-> With(Ok([table |-> Some(stats.val), visible |-> TRUE]),
                               stats.fx, stats.handed),
                  state |-> [st EXCEPT !.export_table = Some(stats.val)]]
        Parsed(df, quantiles, trim, winsor) ==
            IF ~quantiles.ok THEN [res |-> quantiles, state |-> st]
            ELSE IF ~trim.ok THEN [res |-> trim, state |-> st]
            ELSE IF ~winsor.ok THEN [res |-> winsor, state |-> st]
            ELSE Shown(DescriptiveCall(1,
                     CtlRunDescriptive(st, df,
                         [column |-> a.column,
                          quantile_probs |-> quantiles.val,
                          trim_alpha |-> trim.val,
                          winsor_limits |-> winsor.val,
                          weights_col |-> IF a.weights_col = Some("- None -")
                                          THEN None ELSE a.weights_col],
                         core_raises)))
    IN  IF IsNone(IF ~IsNone(st.filtered_df) THEN st.filtered_df ELSE st.df)
        THEN [res |-> Ok([table |-> None, visible |-> FALSE]), state |-> st]
        ELSE Parsed(IF ~IsNone(st.filtered_df) THEN st.filtered_df ELSE st.df,
                    parse_quantiles(a.q_text), parse_trim(a.trim_text),
                    parse_winsor(a.winsor_text))

(***************************************************************************)
(* controllers/hypothesis_controller.py                                    *)
(***************************************************************************)
_round_table(table, decimals) ==
    IF IsNone(table) THEN table ELSE Some(RoundTable(Get(table), decimals))

\* The "common numeric data check" of the dispatcher
_ensure_numeric_series(df, column) ==
    LET Sample(series) ==
            IF series.items = <<>>
            THEN Raise("ValueError", "No valid data in the selected column.")
            ELSE Ok(series.items)
    IN  IF IsNone(df) THEN Raise("ValueError", "No dataset loaded.")
        ELSE IF IsNone(column) \/ Get(column) \notin Columns(Get(df))
        THEN Raise("ValueError", "Column not found in the dataset.")
        ELSE Sample(DropNa(Col(Get(df), Get(column))))

MaterializeUnchecked(df, numeric_col, cat_col, cat_vals) ==
    IF IsNone(cat_col)
    THEN Raise("ValueError", "No categorical column selected.")
    ELSE IF Get(cat_col) \notin Columns(df)
    THEN Raise("ValueError", "Categorical column not found in the dataset.")
    ELSE Ok(DropNa(Col(FilterIsIn(df, Get(cat_col), cat_vals),
                       numeric_col)).items)

_materialize_group(df, numeric_col, cat_col, cat_vals) ==
    LET Group(series) ==
            IF series.items = <<>>
            THEN Raise("ValueError",
                       "One or more groups are empty after filtering.")
            ELSE Ok(series.items)
    IN  IF IsNone(cat_col)
        THEN Raise("ValueError", "No categorical column selected.")
        ELSE IF Get(cat_col) \notin Columns(df)
        THEN Raise("ValueError",
                   "Categorical column not found in the dataset.")
        ELSE IF cat_vals = {}
        THEN Raise("ValueError", "No categories selected for column.")
        ELSE Group(DropNa(Col(FilterIsIn(df, Get(cat_col), cat_vals),
                              numeric_col)))

CoreTestFallsThrough(st, routine, handed, env) ==
    With(Ok([table |-> _round_table(Some([kind |-> "one_way_anova",
                                          decimals |-> None]),
                                    st.display_precision),
             fig |-> None]),
         {routine, "one_way_anova"}, Some(handed))

\* A core test routine called with handed: it raises or returns its table,
\* rounded by the dispatcher, and its figure
CoreTest(st, routine, handed, env) ==
    With(IF env.raises THEN Raise("CoreError", routine)
         ELSE Ok([table |-> _round_table(Some([kind |-> routine,
                                               decimals |-> None]),
                                         st.display_precision),
                  fig |-> IF env.fig THEN Some([kind |-> routine]) ELSE None]),
         {routine}, Some(handed))

\* The rows one_way_anova is given
AnovaData(df, numeric_col, cat_col, cat_vals) ==
    SelectDropNa(FilterIsIn(df, cat_col, cat_vals), {numeric_col, cat_col})

\* run_hypothesis_testing; env says what the core routine called does
CtlRunHypothesis(st, df, a, env) ==
    LET TwoGroups(routine, group1, group2) ==
            IF ~group1.ok THEN group1
            ELSE IF ~group2.ok THEN group2
            ELSE IF routine = "two_sample_ttest"
            THEN CoreTest(st, routine,
                     [group1 |-> group1.val, group2 |-> group2.val,
                      numeric_col |-> Get(a.numeric_col),
                      name_group1 |-> IF a.name_group1 = "" THEN "Group 1"
                                      ELSE a.name_group1,
                      name_group2 |-> IF a.name_group2 = "" THEN "Group 2"
                                      ELSE a.name_group2,
                      alternative |-> a.alternative,
                      correction |-> a.correction,
                      plot_type |-> a.plot_type,
                      bootstrap_samples |-> a.bootstrap_samples,
                      include_graph |-> a.include_graph],
                     env)
            ELSE CoreTest(st, routine,
                     [group1 |-> group1.val, group2 |-> group2.val,
                      name_group1 |-> IF a.name_group1 = "" THEN "Group 1"
                                      ELSE a.name_group1,
                      name_group2 |-> IF a.name_group2 = "" THEN "Group 2"
                                      ELSE a.name_group2,
                      test_type |-> a.test_type,
                      include_graph |-> a.include_graph,
                      bootstrap_samples |-> a.bootstrap_samples],
                     env)
        OneSample(mu0) ==
            IF Strip(a.mu0_text) = <<>>
            THEN Raise("ValueError",
                       "mu0 must be specified for the one-sample t-test.")
            ELSE IF ~mu0.ok
            THEN Raise("ValueError", "mu0 must be a numeric value.")
            ELSE CoreTest(st, "one_sample_ttest",
                     [sample |-> DropNa(Col(Get(df), Get(a.numeric_col))).items,
                      mu0 |-> mu0.val, alternative |-> a.alternative,
                      numeric_col |-> Get(a.numeric_col),
                      bootstrap_samples |-> a.bootstrap_samples,
                      include_graph |-> a.include_graph],
                     env)
        Anova ==
            IF IsNone(a.cat_col3)
            THEN Raise("ValueError",
                       "A categorical column must be selected for ANOVA.")
            ELSE IF Get(a.cat_col3) \notin Columns(Get(df))
            THEN Raise("ValueError",
                       "Categorical column not found in the dataset.")
            ELSE IF a.cat_vals3 = {}
            THEN Raise("ValueError",
                       "At least one category must be selected for ANOVA.")
            ELSE CoreTest(st, "one_way_anova",
                     [data_group |-> AnovaData(Get(df), Get(a.numeric_col),
                                         Get(a.cat_col3), a.cat_vals3).rows,
                      numeric_col |-> Get(a.numeric_col),
                      cat_col |-> Get(a.cat_col3)],
                     env)
        Dispatch(numeric) ==
            IF ~numeric.ok THEN numeric
            ELSE IF a.hypo_test = "One sample Student's t-test"
            THEN OneSample(PyFloat(a.mu0_text))
            ELSE IF a.hypo_test = "Two samples Student's t-test"
            THEN TwoGroups("two_sample_ttest",
                     _materialize_group(Get(df), Get(a.numeric_col),
                                        a.cat_col1, a.cat_vals1),
                     _materialize_group(Get(df), Get(a.numeric_col),
                                        a.cat_col2, a.cat_vals2))
            ELSE IF a.hypo_test = "Equal variance between two groups"
            THEN TwoGroups("variance_test",
                     _materialize_group(Get(df), Get(a.numeric_col),
                                        a.cat_col1, a.cat_vals1),
                     _materialize_group(Get(df), Get(a.numeric_col),
                                        a.cat_col2, a.cat_vals2))
            ELSE IF a.hypo_test = "One-way ANOVA"
            THEN Anova
            ELSE Raise("ValueError", "Unknown hypothesis test")
    IN  IF IsNone(df) THEN Raise("ValueError", "No dataset loaded.")
        ELSE Dispatch(_ensure_numeric_series(df, a.numeric_col))

(***************************************************************************)
(* ui/tabs/hypothesis_testing_tab.py                                       *)
(***************************************************************************)
\* on_run of the Hypothesis Testing tab: the outcome shown (an error is a
\* one-cell table, no exception leaves the callback) and the new session
HypothesisOnRun(st, a, env) ==
    LET _error_result(message, fx, handed) ==
            [res |-> With(Ok(InferenceUi(Some([kind |-> "Error",
                                                message |-> message]),
                                          TRUE, None, FALSE)),
                          fx, handed),
             state |-> [st EXCEPT
                           !.export_table = Some([kind |-> "Error",
                                                  message |-> message]),
                           !.export_figure = None]]
        Shown(r) ==
            IF ~r.ok THEN _error_result(r.err, r.fx, r.handed)
            ELSE [res |-> With(Ok(InferenceUi(r.val.table, TRUE, r.val.fig,
                                               ~IsNone(r.val.fig))),
                               r.fx, r.handed),
                  state |-> [st EXCEPT !.export_table = r.val.table,
                                       !.export_figure = r.val.fig]]
        Chosen(df) ==
            IF IsNone(df) THEN _error_result("No dataset loaded.", {}, None)
            ELSE IF IsNone(a.numeric_col) \/ a.numeric_col = Some("")
            THEN _error_result("No numeric column selected.", {}, None)
            ELSE Shown(CtlRunHypothesis(st, df, a, env))
    IN  Chosen(IF ~IsNone(st.filtered_df) THEN st.filtered_df ELSE st.df)

(***************************************************************************)
(* core/data_stats.py                                                      *)
(***************************************************************************)
\* The rows kept by the selections vals[i] on the columns cat_cols[i]
RECURSIVE FilterEach(_, _, _)
FilterEach(df, cat_cols, vals) ==
    IF cat_cols = <<>> \/ vals = <<>> THEN df
    ELSE FilterEach(IF Head(vals) # {}
                    THEN FilterIsIn(df, Head(cat_cols), Head(vals))
                    ELSE df,
                    Tail(cat_cols), Tail(vals))

\* apply_category_filters: the filtered dataset (None without a dataset)
apply_category_filters(df, cat_cols, val1, val2, val3) ==
    IF IsNone(df) THEN None
    ELSE IF cat_cols = <<>> \/ (val1 = {} /\ val2 = {} /\ val3 = {})
    THEN df
    ELSE Some(FilterEach(Get(df), cat_cols, <<val1, val2, val3>>))

(***************************************************************************)
(* tests/test_no_tabular_rounding_in_core.py                               *)
(* A file is its name and its content, a sequence of tokens: the words     *)
(* "round", "np" and "a" (any other word characters), ".", "(", a blank    *)
(* and a line break.                                                       *)
(***************************************************************************)
WordTokens == {"round", "np", "a"}
SpaceTokens == {" ", "\n"}

\* \b before position i: no word character just before it
Boundary(content, i) == i = 1 \/ content[i - 1] \notin WordTokens

\* \s*\( from position j on
ParenAfter(content, j) ==
    \E k \in j..Len(content) :
        /\ content[k] = "("
        /\ \A m \in j..(k - 1) : content[m] \in SpaceTokens

FORBIDDEN_PATTERNS == <<"\\bround\\s*\\(", "\\bnp\\.round\\s*\\(", "\\.round\\s*\\(">>

\* pattern matches content from position i on
MatchAt(pattern, content, i) ==
    IF pattern = FORBIDDEN_PATTERNS[1]
    THEN /\ content[i] = "round"
         /\ Boundary(content, i)
         /\ ParenAfter(content, i + 1)
    ELSE IF pattern = FORBIDDEN_PATTERNS[2]
    THEN /\ content[i] = "np"
         /\ Boundary(content, i)
         /\ i + 2 <= Len(content)
         /\ content[i + 1] = "."
         /\ content[i + 2] = "round"
         /\ ParenAfter(content, i + 3)
    ELSE /\ content[i] = "."
         /\ i + 1 <= Len(content)
         /\ content[i + 1] = "round"
         /\ ParenAfter(content, i + 2)

\* re.finditer(pattern, content): the starts of the matches, in order
FindIter(pattern, content) ==
    SelectSeq([i \in 1..Len(content) |-> i],
              LAMBDA i : MatchAt(pattern, content, i))

\* content[: start].count("\n") + 1
LineNumber(content, start) ==
    Cardinality({m \in 1..(start - 1) : content[m] = "\n"}) + 1

\* The entries one file adds to violations
RECURSIVE FileViolations(_, _)
FileViolations(file, patterns) ==
    IF patterns = <<>> THEN <<>>
    ELSE LET Entries(starts) ==
                 [k \in 1..Len(starts) |->
                     [path |-> file.name,
                      line |-> LineNumber(file.content, starts[k]),
                      pattern |-> Head(patterns)]]
         IN  Entries(FindIter(Head(patterns), file.content))
                 \o FileViolations(file, Tail(patterns))

\* The list violations after the loop over the files under core/
RECURSIVE CollectViolations(_)
CollectViolations(files) ==
    IF files = <<>> THEN <<>>
    ELSE (IF Head(files).name = "hypothesis_tests.py" THEN <<>>
          ELSE FileViolations(Head(files), FORBIDDEN_PATTERNS))
             \o CollectViolations(Tail(files))

\* What the test does with the list it collected
TestVerdict(violations) == Ok(None)

\* test_no_tabular_rounding_in_core on the files under core/: its outcome
\* (ok: the test passes), with the list it built in handed
test_no_tabular_rounding_in_core(files) ==
    LET Collected(violations) ==
            With(TestVerdict(violations), {}, Some(violations))
    IN  Collected(CollectViolations(files))

(***************************************************************************)
(* state/app_state.py                                                      *)
(***************************************************************************)
DEFAULT_DISPLAY_PRECISION == 4

\* AppState.__init__ with the dataset df loaded
AppState(df) ==
    [df |-> df,
     filtered_df |-> None,
     export_table |-> None,
     export_figure |-> None,
     display_precision |-> DEFAULT_DISPLAY_PRECISION]

NoCall == [op |-> "none", args |-> None, res |-> Ok(None)]
Call(op, args, res) == [op |-> op, args |-> Some(args), res |-> res]

NoCoreFiles == <<>>

\* No tab is on screen
NoUi == <<>>

(***************************************************************************)
(* Inputs                                                                  *)
(***************************************************************************)
\* A small complete dataset: outcome y, predictor x
NumDtype == [y |-> "num", x |-> "num"]

\* The regression controller's arguments, the defaults of the tab
RegArgs ==
    [formula_check |-> FALSE, formula_text |-> "", formula_latex |-> "",
     dependent_var |-> Some("y"), independent_vars |-> <<"x">>,
     alpha_input |-> <<"0", ".", "9", "5">>, intercept |-> TRUE,
     graph_check |-> TRUE, graph_type |-> "Simple Regression",
     show_ci |-> TRUE, show_pi |-> TRUE, fit_to_obs |-> TRUE,
     x_range_text |-> <<>>]

\* The inference tab's inputs, the defaults of the tab
InfArgs ==
    [column |-> Some("y"),
     estimation_type |-> "Confidence and Prediction Intervals",
     alpha_text |-> <<"0", ".", "9", "5">>,
     cr_probs_text |-> <<"0", ".", "5">>,
     cr_eps_mu_text |-> <<"0", ".", "1", ",", "0", ".", "1">>,
     cr_eps_sigma_text |-> <<"0", ".", "1", ",", "0", ".", "1">>,
     cr_add_ci |-> TRUE,
     mean_est |-> "Sample Mean",
     weights_col |-> None,
     opts |-> "defaults"]

NoRaise == [cr_raises |-> FALSE, ci_raises |-> FALSE, pi_raises |-> FALSE]
Envs == [cr_raises : BOOLEAN, ci_raises : BOOLEAN, pi_raises : BOOLEAN]

EstimationTypes ==
    {"Confidence Intervals", "Prediction Intervals",
     "Confidence and Prediction Intervals", "Confidence Regions"}

(***************************************************************************)
(* The confidence-level text: the regression controller and the inference  *)
(* tab called on every text of at most MaxAlphaLen characters.             *)
(***************************************************************************)
AlphaTexts == Texts({"0", "1", "5", ".", "-", " ", "x"}, MaxAlphaLen)

OneRowFrame ==
    [dtype |-> NumDtype,
     rows |-> <<[idx |-> 0, cells |-> [y |-> V(1), x |-> V(1)]]>>]

InitConf ==
    /\ state \in {AppState(None), AppState(Some(OneRowFrame))}
    /\ inp \in [alpha_text : AlphaTexts, fit_to_obs : BOOLEAN,
                estimation_type : EstimationTypes]
    /\ last = NoCall
    /\ core_files = NoCoreFiles
    /\ ui = NoUi

ConfRegression ==
    /\ last' = Call("ctl.run_linear_regression",
                    [RegArgs EXCEPT !.alpha_input = inp.alpha_text,
                                    !.fit_to_obs = inp.fit_to_obs],
                    CtlRunLinearRegression(state, state.df, state.filtered_df,
                        [RegArgs EXCEPT !.alpha_input = inp.alpha_text,
                                        !.fit_to_obs = inp.fit_to_obs],
                        FALSE))
    /\ UNCHANGED <<state, inp, core_files, ui>>

\* A tab callback: the call is recorded and the session it left is kept
Effect(op, a, r) ==
    /\ last' = Call(op, a, r.res)
    /\ state' = r.state

ConfInference ==
    /\ Effect("inference.on_run",
              [InfArgs EXCEPT !.alpha_text = inp.alpha_text,
                              !.estimation_type = inp.estimation_type],
              InferenceOnRun(state,
                  [InfArgs EXCEPT !.alpha_text = inp.alpha_text,
                                  !.estimation_type = inp.estimation_type],
                  NoRaise))
    /\ UNCHANGED <<inp, core_files, ui>>

NextConf == ConfRegression \/ ConfInference

SpecConf == InitConf /\ [][NextConf]_vars

\* C1: a confidence-level text is accepted by the regression controller and
\* by the inference tab's run only if it reads as a number strictly between
\* 0 and 1, and then alpha = 1 - level is what is handed on; with any other
\* text the run raises, returns nothing and hands nothing on, so "1.5", "1"
\* and "0" are refused and never clamped.
ConfidenceLevelStrictlyInside ==
    last.op \in {"ctl.run_linear_regression", "inference.on_run"} =>
        LET text == IF last.op = "inference.on_run"
                    THEN Get(last.args).alpha_text
                    ELSE Get(last.args).alpha_input
            f == PyFloat(text)
            inside == f.ok /\ 0 < f.val.num /\ f.val.num < f.val.den
        IN  /\ ~IsNone(last.res.handed) =>
                /\ inside
                /\ Get(last.res.handed).alpha.num * f.val.den
                       = (f.val.den - f.val.num) * Get(last.res.handed).alpha.den
            /\ last.res.ok => ~IsNone(last.res.handed)
            /\ ~inside =>
                /\ ~last.res.ok
                /\ last.res.exc \in {"ValueError", "gr.Error"}
                /\ last.res.val = None
                /\ last.res.fx = {}
            /\ Strip(text) \in {<<"1", ".", "5">>, <<"1">>, <<"0">>, <<"-", ".", "5">>,
                                <<>>, <<"x">>, <<".">>}
                   => ~last.res.ok
            /\ (Strip(text) \in {<<".", "5">>, <<"0", ".", "5">>}
                  /\ ~IsNone(last.res.handed))
                   => Get(last.res.handed).alpha \in {Num(5, 10), Num(50, 100)}

\* C1 witness: the controller accepted "0.5" and fitted with alpha = 0.5
ConfidenceLevelAccepted ==
    /\ last.op = "ctl.run_linear_regression"
    /\ Get(last.args).alpha_input = <<"0", ".", "5">>
    /\ last.res.ok
    /\ NumEq(Get(last.res.handed).alpha, Num(1, 2))

(***************************************************************************)
(* Regression calls: the controller and the core routine on small          *)
(* datasets, every graph configuration and every short range text.         *)
(***************************************************************************)
RegDtype == [y |-> "num", x |-> "num", z |-> "num"]
RegFrames ==
    DataFrames(RegDtype, [y |-> {V(2)}, x |-> {NaN, V(1), V(3)}, z |-> {V(1)}],
               MaxRows)

GraphTypes == {"Simple Regression", "Observed vs Predicted", "Residuals"}
RangeTexts == Texts({"0", "2", "4", ",", "x"}, MaxRangeLen)

\* Every graph configuration with a blank, a malformed or a good range text
RegConfigs ==
    [graph_check : BOOLEAN, graph_type : GraphTypes,
     independent_vars : {<<>>, <<"x">>, <<"x", "z">>},
     fit_to_obs : BOOLEAN, formula_check : BOOLEAN, fit_raises : BOOLEAN,
     x_range_text : {<<>>, <<"x">>, <<"0", ",", "4">>}]

\* The Simple Regression graph on a caller range, every range text
RegRanges ==
    [graph_check : {TRUE}, graph_type : {"Simple Regression"},
     independent_vars : {<<"x">>},
     fit_to_obs : {FALSE}, formula_check : {FALSE}, fit_raises : {FALSE},
     x_range_text : RangeTexts]

RegInput ==
    [RegArgs EXCEPT !.graph_check = inp.graph_check,
                    !.graph_type = inp.graph_type,
                    !.independent_vars = inp.independent_vars,
                    !.fit_to_obs = inp.fit_to_obs,
                    !.formula_check = inp.formula_check,
                    !.formula_text = IF inp.formula_check THEN "y ~ x" ELSE "",
                    !.x_range_text = inp.x_range_text]

InitReg ==
    /\ state \in {AppState(None)} \cup {AppState(Some(d)) : d \in RegFrames}
    /\ inp \in RegConfigs \cup RegRanges
    /\ last = NoCall
    /\ core_files = NoCoreFiles
    /\ ui = NoUi

\* The controller called with the session's dataset and the entered inputs
RegController ==
    /\ last' = Call("ctl.run_linear_regression", RegInput,
                    CtlRunLinearRegression(state, state.df, state.filtered_df,
                                           RegInput, inp.fit_raises))
    /\ UNCHANGED <<state, inp, core_files, ui>>

\* The grid a direct caller of the core routine passes: the one the range
\* text gives, None when it gives none
GridOf(range) == IF range.ok THEN range.val ELSE None

\* The core routine called directly, at the 95% level
RegCore ==
    /\ last' = Call("core.run_linear_regression", RegInput,
                    CoreRunLinearRegression(state.df, RegInput, Num(5, 100),
                        GridOf(_parse_range(inp.x_range_text)), inp.fit_raises))
    /\ UNCHANGED <<state, inp, core_files, ui>>

NextReg == RegController \/ RegCore

SpecReg == InitReg /\ [][NextReg]_vars

RegOps == {"ctl.run_linear_regression", "core.run_linear_regression"}

\* C2: every regression call that ends in a validation error (a ValueError
\* of the controller or of the core) raised it before the OLS fit was
\* entered and before the summary was built.
ValidationBeforeFit ==
    (last.op \in RegOps /\ ~last.res.ok /\ last.res.exc = "ValueError")
        => last.res.fx \cap {"ols_fit", "summary2"} = {}

\* The drawn bands of positive width
DrawnSpans(fig) ==
    {fig.spans[i] : i \in {k \in 1..Len(fig.spans) :
                               Lt(fig.spans[k].lo, fig.spans[k].hi)}}

\* C6: on a caller range [lo, hi] the Simple Regression plot shades exactly
\* the part of the range outside the observed [xmin, xmax]: a band on the
\* left only if lo < xmin, and it is [lo, xmin]; a band on the right only if
\* hi > xmax, and it is [xmax, hi]; nothing inside the observed range.
ShadesOnlyExtrapolation ==
    (/\ last.op \in RegOps
     /\ last.res.ok
     /\ ~IsNone(last.res.val.fig)
     /\ Get(last.res.val.fig).kind = "Simple Regression"
     /\ ~Get(last.args).fit_to_obs)
    => LET fig == Get(last.res.val.fig)
           lo == fig.x_plot.first
           hi == fig.x_plot.last
           obs == {Get(state.df).rows[i].cells["x"] :
                      i \in {k \in 1..Len(Get(state.df).rows) :
                                Get(state.df).rows[k].cells["x"] # NaN}}
           xmin == CHOOSE m \in obs : \A o \in obs : m[1] <= o[1]
           xmax == CHOOSE m \in obs : \A o \in obs : m[1] >= o[1]
           left == IF lo.num < xmin[1] * lo.den
                   THEN {[lo |-> lo, hi |-> Num(xmin[1], 1)]} ELSE {}
           right == IF hi.num > xmax[1] * hi.den
                    THEN {[lo |-> Num(xmax[1], 1), hi |-> hi]} ELSE {}
       IN  DrawnSpans(fig) = left \cup right

(***************************************************************************)
(* Analysis runs on a session: datasets with an outcome y, a predictor or  *)
(* weights column x and a category column g; the category filter, then the *)
(* three controllers and the inference tab, each on the dataset its tab    *)
(* hands it.                                                               *)
(***************************************************************************)
DataDtypes ==
    {[y |-> "num", x |-> "num", g |-> "obj"],
     [y |-> "obj", x |-> "num", g |-> "obj"],
     [y |-> "num", x |-> "obj", g |-> "obj"]}
DataCells == [y |-> {NaN, V(1)}, x |-> {NaN, V(1)}, g |-> {V(1), V(2)}]
DataFrameSet == UNION {DataFrames(d, DataCells, MaxRows) : d \in DataDtypes}

HypoTests ==
    {"One sample Student's t-test", "Two samples Student's t-test",
     "One-way ANOVA"}

\* The descriptive controller's arguments, the defaults of the tab
DescArgs ==
    [column |-> Some("y"),
     quantile_probs |-> <<Num(1, 4), Num(1, 2), Num(3, 4)>>,
     trim_alpha |-> Some(Num(1, 10)),
     winsor_limits |-> Some(<<Num(1, 10), Num(1, 10)>>),
     weights_col |-> None]

\* The hypothesis controller's arguments: the defaults of the tab, the
\* category column g chosen with one level per group
HypoArgs ==
    [numeric_col |-> Some("y"), hypo_test |-> "One sample Student's t-test",
     mu0_text |-> <<"0">>, alternative |-> "two-sided", include_graph |-> TRUE,
     bootstrap_samples |-> 1000, plot_type |-> "Mean Density",
     correction |-> TRUE, test_type |-> "Levene",
     cat_col1 |-> Some("g"), cat_vals1 |-> {1}, name_group1 |-> "Group 1",
     cat_col2 |-> Some("g"), cat_vals2 |-> {2}, name_group2 |-> "Group 2",
     cat_col3 |-> Some("g"), cat_vals3 |-> {1, 2}]

HypoEnv == [raises |-> FALSE, fig |-> TRUE]

InitData ==
    /\ state \in {AppState(None)} \cup {AppState(Some(d)) : d \in DataFrameSet}
    /\ inp \in [val1 : {{}, {1}}, hypo_test : HypoTests,
                weights_col : {None, Some("x")}]
    /\ last = NoCall
    /\ core_files = NoCoreFiles
    /\ ui = NoUi

\* The dataset a tab hands its controller: the filtered one when there is one
TabDataframe(st) == IF ~IsNone(st.filtered_df) THEN st.filtered_df ELSE st.df

\* An analysis call as recorded: its inputs and the datasets it was given
OnData(a, df, filtered_df) == [a |-> a, df |-> df, filtered_df |-> filtered_df]

\* The category filter on g is applied and its result kept as filtered_df
DataFilter ==
    /\ state' = [state EXCEPT !.filtered_df =
                    apply_category_filters(state.df, <<"g">>, inp.val1, {}, {})]
    /\ UNCHANGED <<inp, last, core_files, ui>>

DataDescriptive ==
    /\ last' = Call("ctl.run_descriptive_statistics",
                    OnData([DescArgs EXCEPT !.weights_col = inp.weights_col],
                           TabDataframe(state), state.filtered_df),
                    CtlRunDescriptive(state, TabDataframe(state),
                        [DescArgs EXCEPT !.weights_col = inp.weights_col],
                        FALSE))
    /\ UNCHANGED <<state, inp, core_files, ui>>

DataHypothesisExports ==
    /\ last' = Call("ctl.run_hypothesis_testing",
                    OnData([HypoArgs EXCEPT !.hypo_test = inp.hypo_test],
                           TabDataframe(state), state.filtered_df),
                    CtlRunHypothesis(state, TabDataframe(state),
                        [HypoArgs EXCEPT !.hypo_test = inp.hypo_test],
                        HypoEnv))
    /\ state' = [state EXCEPT !.export_table = Some("table"),
                              !.export_figure = None]
    /\ UNCHANGED <<inp, core_files, ui>>

DataHypothesis ==
    /\ last' = Call("ctl.run_hypothesis_testing",
                    OnData([HypoArgs EXCEPT !.hypo_test = inp.hypo_test],
                           TabDataframe(state), state.filtered_df),
                    CtlRunHypothesis(state, TabDataframe(state),
                        [HypoArgs EXCEPT !.hypo_test = inp.hypo_test],
                        HypoEnv))
    /\ UNCHANGED <<state, inp, core_files, ui>>

DataRegression ==
    /\ last' = Call("ctl.run_linear_regression",
                    OnData(RegArgs, state.df, state.filtered_df),
                    CtlRunLinearRegression(state, state.df, state.filtered_df,
                                           RegArgs, FALSE))
    /\ UNCHANGED <<state, inp, core_files, ui>>

DataInference ==
    /\ Effect("inference.on_run",
              OnData([InfArgs EXCEPT !.weights_col = inp.weights_col],
                     TabDataframe(state), state.filtered_df),
              InferenceOnRun(state,
                  [InfArgs EXCEPT !.weights_col = inp.weights_col], NoRaise))
    /\ UNCHANGED <<inp, core_files, ui>>

NextData ==
    \/ DataFilter
    \/ DataDescriptive
    \/ DataHypothesis
    \/ DataRegression
    \/ DataInference

SpecData == InitData /\ [][NextData]_vars

ControllerOps ==
    {"ctl.run_descriptive_statistics", "ctl.run_hypothesis_testing",
     "ctl.run_linear_regression"}

\* The dtypes of the columns a controller call analyses: the outcome y,
\* and for the regression the predictor x
AnalysedDtypes(call) ==
    IF call.op = "ctl.run_linear_regression"
    THEN {Get(Get(call.args).df).dtype["y"], Get(Get(call.args).df).dtype["x"]}
    ELSE {Get(Get(call.args).df).dtype["y"]}

\* C3: a controller call on a dataset whose outcome or predictor column is
\* not of a numeric dtype ends in a validation error, and no statistical
\* routine was entered: at most the validating head of the core regression.
NonNumericRejected ==
    (/\ last.op \in ControllerOps
     /\ ~IsNone(Get(last.args).df)
     /\ "obj" \in AnalysedDtypes(last))
    => (/\ ~last.res.ok
        /\ last.res.exc = "ValueError"
        /\ last.res.fx \subseteq {"core.run_linear_regression"})

\* The groups left for the ANOVA: the levels of the grouping column among
\* the rows of the selected levels complete in both columns
AnovaGroups(df, a) ==
    {r.cells[Get(a.cat_col3)][1] :
        r \in SeqToSet(AnovaData(df, Get(a.numeric_col), Get(a.cat_col3),
                                 a.cat_vals3).rows)}

\* C4: a One-way ANOVA run on a dataset that leaves fewer than two groups
\* ends in a validation error and the ANOVA routine is not entered.
InsufficientGroupsRejected ==
    (/\ last.op = "ctl.run_hypothesis_testing"
     /\ Get(last.args).a.hypo_test = "One-way ANOVA"
     /\ ~IsNone(Get(last.args).df)
     /\ Cardinality(AnovaGroups(Get(Get(last.args).df), Get(last.args).a)) < 2)
    => (/\ ~last.res.ok
        /\ last.res.exc = "ValueError"
        /\ "one_way_anova" \notin last.res.fx)

\* C7: a controller call made while the filtered dataset is there but has
\* no rows ends in a validation error: no result is computed, on the
\* unfiltered dataset or otherwise.
EmptyFilterFails ==
    (/\ last.op \in ControllerOps
     /\ ~IsNone(Get(last.args).filtered_df)
     /\ IsEmpty(Get(Get(last.args).filtered_df)))
    => (~last.res.ok /\ last.res.exc = "ValueError")

\* The row labels of what a routine was handed: the inference tab hands
\* series, the descriptive controller their values
LabelsOf(op, x) ==
    IF op = "inference.on_run" THEN Index(x)
    ELSE [i \in 1..Len(x) |-> x[i].idx]

\* C8: weights handed to an estimation routine by the descriptive
\* controller or by the inference tab are as many as the sample values
\* handed with them, and the i-th weight is of the row of the i-th value.
WeightsPairedWithSample ==
    (/\ last.op \in {"ctl.run_descriptive_statistics", "inference.on_run"}
     /\ ~IsNone(last.res.handed)
     /\ ~IsNone(Get(last.res.handed).weights))
    => LabelsOf(last.op, Get(Get(last.res.handed).weights))
           = LabelsOf(last.op, Get(last.res.handed).data)

(***************************************************************************)
(* The rounding test run on a core/ directory: one file of at most         *)
(* MaxFileLen tokens, alone or next to the exempted hypothesis_tests.py.   *)
(***************************************************************************)
RoundTokens == WordTokens \cup SpaceTokens \cup {".", "("}
CoreNames == {"linear_regression.py", "hypothesis_tests.py"}
CoreFileSet == [name : CoreNames, content : Texts(RoundTokens, MaxFileLen)]
ExemptedFile ==
    [name |-> "hypothesis_tests.py", content |-> <<"round", "(">>]

InitLint ==
    /\ state = AppState(None)
    /\ inp = None
    /\ last = NoCall
    /\ core_files \in {<<>>} \cup {<<f>> : f \in CoreFileSet}
                      \cup {<<f, ExemptedFile>> : f \in CoreFileSet}
    /\ ui = NoUi

LintRun ==
    /\ last' = Call("test_no_tabular_rounding_in_core", core_files,
                    test_no_tabular_rounding_in_core(core_files))
    /\ UNCHANGED <<state, inp, core_files, ui>>

NextLint == LintRun

SpecLint == InitLint /\ [][NextLint]_vars

\* A file under core/, other than hypothesis_tests.py, holds a rounding call
HasRoundingCall(files) ==
    \E k \in 1..Len(files) :
        /\ files[k].name # "hypothesis_tests.py"
        /\ \E p \in 1..Len(FORBIDDEN_PATTERNS) :
               \E i \in 1..Len(files[k].content) :
                   MatchAt(FORBIDDEN_PATTERNS[p], files[k].content, i)

\* C5: the rounding test fails exactly when a file under core/ other than
\* hypothesis_tests.py holds a call matching one of the forbidden patterns.
RoundingTestEffective ==
    last.op = "test_no_tabular_rounding_in_core"
        => (last.res.ok <=> ~HasRoundingCall(core_files))

(***************************************************************************)
(* Probability lists: the confidence levels of the inference tab's         *)
(* Confidence Regions mode and the quantile probabilities of the           *)
(* descriptive tab and controller, on every text of at most MaxProbsLen    *)
(* characters.                                                             *)
(***************************************************************************)
ProbTexts == Texts({"2", "5", ".", ","}, MaxProbsLen)

\* The descriptive tab's inputs, the defaults of the tab; "- None -" is the
\* entry of the weights dropdown that stands for no weights column
DescTabArgs ==
    [column |-> Some("y"), weights_col |-> Some("- None -"),
     q_text |-> <<"0", ".", "2", "5", ",", " ", "0", ".", "5", ",", " ",
                  "0", ".", "7", "5">>,
     trim_text |-> <<"0", ".", "1">>,
     winsor_text |-> <<"0", ".", "1", ",", " ", "0", ".", "1">>]

InitProbs ==
    /\ state \in {AppState(None), AppState(Some(OneRowFrame))}
    /\ inp \in [text : ProbTexts, raises : BOOLEAN]
    /\ last = NoCall
    /\ core_files = NoCoreFiles
    /\ ui = NoUi

\* The inference tab run in Confidence Regions mode on the levels text
ProbsRegions ==
    /\ Effect("inference.on_run",
              [InfArgs EXCEPT !.estimation_type = "Confidence Regions",
                              !.cr_probs_text = inp.text],
              InferenceOnRun(state,
                  [InfArgs EXCEPT !.estimation_type = "Confidence Regions",
                                  !.cr_probs_text = inp.text],
                  [NoRaise EXCEPT !.cr_raises = inp.raises]))
    /\ UNCHANGED <<inp, core_files, ui>>

\* The descriptive tab run on the quantiles text
ProbsDescriptiveTab ==
    /\ Effect("descriptive.on_run",
              [DescTabArgs EXCEPT !.q_text = inp.text],
              DescriptiveOnRun(state, [DescTabArgs EXCEPT !.q_text = inp.text],
                               inp.raises))
    /\ UNCHANGED <<inp, core_files, ui>>

\* The quantile list a caller of the controller passes: the one the tab's
\* parser gives on the text, the default list when it gives none
QuantilesOf(parsed) ==
    IF parsed.ok THEN parsed.val ELSE DescArgs.quantile_probs

\* The descriptive controller called by keyword with the session's dataset
ProbsController ==
    /\ last' = Call("ctl.run_descriptive_statistics",
                    [DescArgs EXCEPT !.quantile_probs =
                        QuantilesOf(parse_quantiles(inp.text))],
                    DescriptiveCall(0,
                        CtlRunDescriptive(state, state.df,
                            [DescArgs EXCEPT !.quantile_probs =
                                QuantilesOf(parse_quantiles(inp.text))],
                            inp.raises)))
    /\ UNCHANGED <<state, inp, core_files, ui>>

NextProbs == ProbsRegions \/ ProbsDescriptiveTab \/ ProbsController

SpecProbs == InitProbs /\ [][NextProbs]_vars

InUnit(p) == Lt(Zero, p) /\ Lt(p, One)

\* C9: the levels the inference tab passes to run_confidence_regions are at
\* least one, each strictly between 0 and 1, and strictly increasing; a
\* text that gives no such list is rejected before the routine is entered.
LevelsStrictlyIncreasing ==
    (last.op = "inference.on_run"
     /\ "run_confidence_regions" \in last.res.fx)
    => LET probs == Get(last.res.handed).probs
       IN  /\ probs # <<>>
           /\ \A i \in 1..Len(probs) : InUnit(probs[i])
           /\ \A i, j \in 1..Len(probs) : i < j => Lt(probs[i], probs[j])

\* C10: a descriptive run of the controller on a quantile list, as the
\* tab's parser yields it, that holds a probability outside (0, 1) ends in a
\* validation error, returns no table, and the statistics routine is not
\* handed the list.
QuantilesOutOfRangeRejected ==
    (/\ last.op = "ctl.run_descriptive_statistics"
     /\ \E i \in 1..Len(Get(last.args).quantile_probs) :
            ~InUnit(Get(last.args).quantile_probs[i]))
    => (/\ ~last.res.ok
        /\ last.res.exc = "ValueError"
        /\ "compute_descriptive_statistics" \notin last.res.fx)

(***************************************************************************)
(* Descriptive runs: the controller and the tab on datasets with a sample  *)
(* column y and a weights column w of either dtype, with every way of      *)
(* naming the two columns.                                                 *)
(***************************************************************************)
InitDesc ==
    /\ state \in {AppState(None)}
            \cup {AppState(Some(d)) :
                     d \in UNION {DataFrames(t, [y |-> {NaN, V(1)},
                                                 w |-> {NaN, V(-1), V(1)}],
                                             MaxRows) :
                                     t \in [y : {"num", "obj"},
                                            w : {"num", "obj"}]}}
    /\ inp \in [column : {None, Some("y"), Some("z")},
                weights_col : {None, Some(""), Some("w"), Some("z")},
                raises : BOOLEAN]
    /\ last = NoCall
    /\ core_files = NoCoreFiles
    /\ ui = NoUi

\* The descriptive controller called by keyword with the session's dataset
DescController ==
    /\ last' = Call("ctl.run_descriptive_statistics",
                    OnData([DescArgs EXCEPT !.column = inp.column,
                                            !.weights_col = inp.weights_col],
                           state.df, state.filtered_df),
                    DescriptiveCall(0,
                        CtlRunDescriptive(state, state.df,
                            [DescArgs EXCEPT !.column = inp.column,
                                             !.weights_col = inp.weights_col],
                            inp.raises)))
    /\ UNCHANGED <<state, inp, core_files, ui>>

\* The descriptive tab run on the named columns
DescTab ==
    /\ Effect("descriptive.on_run",
              OnData([DescTabArgs EXCEPT !.column = inp.column,
                                         !.weights_col = inp.weights_col],
                     TabDataframe(state), state.filtered_df),
              DescriptiveOnRun(state,
                  [DescTabArgs EXCEPT !.column = inp.column,
                                      !.weights_col = inp.weights_col],
                  inp.raises))
    /\ UNCHANGED <<inp, core_files, ui>>

NextDesc == DescController \/ DescTab

SpecDesc == InitDesc /\ [][NextDesc]_vars

\* The rows of df whose cell in column c is not missing
RowsWith(df, c) == {r \in SeqToSet(df.rows) : r.cells[c] # NaN}

\* A weights column is named
WeightsNamed(a) == ~IsNone(a.weights_col) /\ a.weights_col # Some("")

\* The dataset is loaded, the sample column exists, has a value and is
\* numeric, and a named weights column exists and is numeric
DescriptiveInputsValid(df, a) ==
    /\ ~IsNone(df)
    /\ ~IsNone(a.column)
    /\ Get(a.column) \in Columns(Get(df))
    /\ RowsWith(Get(df), Get(a.column)) # {}
    /\ Get(df).dtype[Get(a.column)] = "num"
    /\ WeightsNamed(a) =>
           /\ Get(a.weights_col) \in Columns(Get(df))
           /\ Get(df).dtype[Get(a.weights_col)] = "num"

\* The weights column named holds a negative value in one of rows
NegativeWeightIn(rows, a) ==
    \E r \in rows : /\ r.cells[Get(a.weights_col)] # NaN
                    /\ r.cells[Get(a.weights_col)][1] < 0

\* The statistics routine is entered exactly when valid holds; otherwise
\* the call raises a ValueError and returns nothing
ComputesExactlyWhen(valid) ==
    /\ ("compute_descriptive_statistics" \in last.res.fx) <=> valid
    /\ ~valid => (/\ ~last.res.ok
                  /\ last.res.exc = "ValueError"
                  /\ IsNone(last.res.val)
                  /\ last.res.fx = {})

\* C11 as stated: the statistics routine is entered exactly when the inputs
\* are valid and the named weights column holds no negative value anywhere;
\* otherwise a ValueError is raised and nothing is computed or returned.
ComputesOnlyOnValidInputs ==
    last.op = "ctl.run_descriptive_statistics"
    => ComputesExactlyWhen(
           /\ DescriptiveInputsValid(Get(last.args).df, Get(last.args).a)
           /\ WeightsNamed(Get(last.args).a) =>
                  ~NegativeWeightIn(SeqToSet(Get(Get(last.args).df).rows),
                                    Get(last.args).a))

\* C11 amended: the same, with the weights required to be non-negative in
\* the rows of the sample only, the rows whose sample value is not missing.
ComputesOnlyOnValidSample ==
    last.op = "ctl.run_descriptive_statistics"
    => ComputesExactlyWhen(
           /\ DescriptiveInputsValid(Get(last.args).df, Get(last.args).a)
           /\ WeightsNamed(Get(last.args).a) =>
                  ~NegativeWeightIn(
                       RowsWith(Get(Get(last.args).df),
                                Get(Get(last.args).a.column)),
                       Get(last.args).a))

\* A weighted run whose weights column is negative only in a row dropped
\* from the sample reached the statistics routine
WeightedRunComputed ==
    /\ last.op = "ctl.run_descriptive_statistics"
    /\ "compute_descriptive_statistics" \in last.res.fx
    /\ ~IsNone(Get(last.res.handed).weights)
    /\ NegativeWeightIn(SeqToSet(Get(Get(last.args).df).rows),
                        Get(last.args).a)

(***************************************************************************)
(* Hypothesis runs: the dispatcher and the tab on datasets with a sample   *)
(* column y and a grouping column g, for every test name, null-mean text   *)
(* and group selection below.                                              *)
(***************************************************************************)
TwoGroupTests ==
    {"Two samples Student's t-test", "Equal variance between two groups"}

\* Null-mean texts float() takes and texts it does not take
Mu0Numeric == {<<"1">>, <<"-", "1">>, <<" ", "2">>, <<".", "5">>}
Mu0Malformed == {<<>>, <<" ">>, <<"x">>, <<"1", "x">>, <<"-">>}

\* A column with the levels selected in it: none, unknown, g with levels
GroupChoices ==
    {[col |-> None, vals |-> {1}], [col |-> Some("h"), vals |-> {1}],
     [col |-> Some("g"), vals |-> {}], [col |-> Some("g"), vals |-> {1}],
     [col |-> Some("g"), vals |-> {2}]}

HypoConfigs ==
    {[HypoArgs EXCEPT !.hypo_test = t, !.numeric_col = c] :
        t \in HypoTests \cup TwoGroupTests \cup {"", "Welch's t-test"},
        c \in {Some("y"), Some("z"), Some("")}}
    \cup {[HypoArgs EXCEPT !.mu0_text = m] : m \in Mu0Numeric \cup Mu0Malformed}
    \cup {[HypoArgs EXCEPT !.hypo_test = t,
                           !.cat_col1 = g1.col, !.cat_vals1 = g1.vals,
                           !.cat_col2 = g2.col, !.cat_vals2 = g2.vals] :
            t \in TwoGroupTests, g1 \in GroupChoices, g2 \in GroupChoices}
    \cup {[HypoArgs EXCEPT !.hypo_test = "One-way ANOVA",
                           !.cat_col3 = g.col, !.cat_vals3 = g.vals] :
            g \in GroupChoices \cup {[col |-> Some("g"), vals |-> {1, 2}]}}

InitHypo ==
    /\ state \in {AppState(None)}
            \cup {AppState(Some(d)) :
                     d \in DataFrames([y |-> "num", g |-> "obj"],
                                      [y |-> {NaN, V(1)},
                                       g |-> {NaN, V(1), V(2)}], MaxRows)}
    /\ inp \in [a : HypoConfigs, raises : BOOLEAN, fig : BOOLEAN]
    /\ last = NoCall
    /\ core_files = NoCoreFiles
    /\ ui = NoUi

\* The dispatcher called by keyword with the session's dataset
HypoController ==
    /\ last' = Call("ctl.run_hypothesis_testing",
                    OnData(inp.a, state.df, state.filtered_df),
                    CtlRunHypothesis(state, state.df, inp.a,
                                     [raises |-> inp.raises, fig |-> inp.fig]))
    /\ UNCHANGED <<state, inp, core_files, ui>>

\* The Hypothesis Testing tab run on the same inputs
HypoTab ==
    /\ Effect("hypothesis.on_run",
              OnData(inp.a, TabDataframe(state), state.filtered_df),
              HypothesisOnRun(state, inp.a,
                              [raises |-> inp.raises, fig |-> inp.fig]))
    /\ UNCHANGED <<inp, core_files, ui>>

NextHypo == HypoController \/ HypoTab

SpecHypo == InitHypo /\ [][NextHypo]_vars

\* The call ended in a validation error with nothing entered or returned
RejectedUnrun ==
    /\ ~last.res.ok
    /\ last.res.exc = "ValueError"
    /\ IsNone(last.res.val)
    /\ last.res.fx = {}

\* C12: a dispatcher call enters at most one core test, the one its test
\* name stands for; under any other name it raises and enters none.
RoutesByTestName ==
    last.op = "ctl.run_hypothesis_testing"
    => LET name == Get(last.args).a.hypo_test
       IN  /\ name = "One sample Student's t-test"
                  => last.res.fx \subseteq {"one_sample_ttest"}
           /\ name = "Two samples Student's t-test"
                  => last.res.fx \subseteq {"two_sample_ttest"}
           /\ name = "Equal variance between two groups"
                  => last.res.fx \subseteq {"variance_test"}
           /\ name = "One-way ANOVA"
                  => last.res.fx \subseteq {"one_way_anova"}
           /\ name \notin HypoTests \cup TwoGroupTests => RejectedUnrun

\* Every known name reached its routine: here the variance test
VarianceTestRouted ==
    /\ last.op = "ctl.run_hypothesis_testing"
    /\ Get(last.args).a.hypo_test = "Equal variance between two groups"
    /\ last.res.fx = {"variance_test"}
    /\ last.res.ok

\* A group is there: its column is selected and in the dataset, a level is
\* selected, and a row of a selected level has a sample value
GroupThere(df, numeric_col, cat_col, cat_vals) ==
    /\ ~IsNone(df)
    /\ ~IsNone(cat_col)
    /\ {Get(numeric_col), Get(cat_col)} \subseteq Columns(Get(df))
    /\ \E r \in SeqToSet(Get(df).rows) :
           /\ r.cells[Get(cat_col)] # NaN
           /\ r.cells[Get(cat_col)][1] \in cat_vals
           /\ r.cells[Get(numeric_col)] # NaN

\* C13: a two-group test enters its routine only with both groups there;
\* with a group missing the call is rejected and the routine not entered.
GroupsCheckedBeforeTest ==
    (/\ last.op = "ctl.run_hypothesis_testing"
     /\ Get(last.args).a.hypo_test \in TwoGroupTests)
    => LET a == Get(last.args).a
           both == /\ GroupThere(Get(last.args).df, a.numeric_col,
                                 a.cat_col1, a.cat_vals1)
                   /\ GroupThere(Get(last.args).df, a.numeric_col,
                                 a.cat_col2, a.cat_vals2)
       IN  /\ last.res.fx # {} => both
           /\ ~both => RejectedUnrun

\* A two-sample run was rejected for an empty second group
EmptyGroupRejected ==
    /\ last.op = "ctl.run_hypothesis_testing"
    /\ Get(last.args).a.hypo_test = "Two samples Student's t-test"
    /\ last.res.err = "One or more groups are empty after filtering."
    /\ GroupThere(Get(last.args).df, Get(last.args).a.numeric_col,
                  Get(last.args).a.cat_col1, Get(last.args).a.cat_vals1)

\* C14: the one-sample test is entered only on a null-mean text that is
\* not blank and reads as a number; a blank or malformed text is rejected
\* before the routine is entered.
NullMeanCheckedBeforeTest ==
    (/\ last.op = "ctl.run_hypothesis_testing"
     /\ Get(last.args).a.hypo_test = "One sample Student's t-test")
    => /\ last.res.fx # {} => Get(last.args).a.mu0_text \in Mu0Numeric \cup {<<"0">>}
       /\ Get(last.args).a.mu0_text \in Mu0Malformed => RejectedUnrun

\* A one-sample run with a malformed null mean on a dataset with a sample
MalformedNullMeanRejected ==
    /\ last.op = "ctl.run_hypothesis_testing"
    /\ Get(last.args).a.mu0_text = <<"1", "x">>
    /\ last.res.err = "mu0 must be a numeric value."

(***************************************************************************)
(* Further properties of the regression calls of SpecReg.                  *)
(***************************************************************************)
\* C15: a call asking for the Simple Regression graph with more than one
\* independent variable fails with a validation error (a ValueError) and
\* returns nothing, from the controller and from the core routine alike,
\* and the plot is not drawn.
SimpleGraphNeedsOneVariable ==
    (/\ last.op \in RegOps
     /\ Get(last.args).graph_check
     /\ Get(last.args).graph_type = "Simple Regression"
     /\ Len(Get(last.args).independent_vars) > 1)
    => /\ ~last.res.ok
       /\ IsNone(last.res.val)
       /\ "plot_simple_regression" \notin last.res.fx
       /\ last.res.exc = "ValueError"

\* C16: in formula mode the call with the intercept flag cleared gives what
\* the call with the flag set gave, and neither the fitted design nor the
\* prediction design of the plot has a constant column.
FormulaOverridesIntercept ==
    (last.op \in RegOps /\ Get(last.args).formula_check)
    => /\ last.res =
              IF last.op = "ctl.run_linear_regression"
              THEN CtlRunLinearRegression(state, state.df, state.filtered_df,
                       [Get(last.args) EXCEPT !.intercept = FALSE],
                       inp.fit_raises)
              ELSE CoreRunLinearRegression(state.df,
                       [Get(last.args) EXCEPT !.intercept = FALSE],
                       Num(5, 100), GridOf(_parse_range(inp.x_range_text)),
                       inp.fit_raises)
       /\ (last.op = "core.run_linear_regression"
           /\ ~IsNone(last.res.handed))
              => ~Get(last.res.handed).const
       /\ (last.res.ok /\ ~IsNone(last.res.val.fig)
           /\ Get(last.res.val.fig).kind = "Simple Regression")
              => ~Get(last.res.val.fig).const

\* A formula-mode call with the flag set fitted a model and drew the plot
FormulaModelPlotted ==
    /\ last.op = "core.run_linear_regression"
    /\ Get(last.args).formula_check
    /\ Get(last.args).intercept
    /\ last.res.ok
    /\ ~IsNone(last.res.val.fig)
    /\ Get(last.res.val.fig).kind = "Simple Regression"

\* The range text has exactly two numeric parts lo < hi
RangeWellFormed(text) ==
    LET parts == SplitComma(Strip(text))
    IN  /\ Len(parts) = 2
        /\ PyFloat(Strip(parts[1])).ok
        /\ PyFloat(Strip(parts[2])).ok
        /\ Lt(PyFloat(Strip(parts[1])).val, PyFloat(Strip(parts[2])).val)

\* C18: the Simple Regression plot predicts, with fit_to_obs, at the
\* observed x of the complete rows in ascending order; on a range text
\* 'lo, hi' of the controller, at 100 evenly spaced points from lo to hi;
\* a range text of any other form is rejected and nothing is returned.
PredictionPoints ==
    /\ (/\ last.op \in RegOps
        /\ last.res.ok
        /\ ~IsNone(last.res.val.fig)
        /\ Get(last.res.val.fig).kind = "Simple Regression"
        /\ Get(last.args).fit_to_obs)
       => LET vals == Get(last.res.val.fig).x_plot.vals
              rows == Get(state.df).rows
          IN  /\ Get(last.res.val.fig).x_plot.kind = "observed"
              /\ \A i \in 1..(Len(vals) - 1) : Le(vals[i], vals[i + 1])
              /\ \A v \in {1, 3} :
                     Cardinality({i \in 1..Len(vals) : vals[i] = Num(v, 1)})
                         = Cardinality({i \in 1..Len(rows) :
                                           rows[i].cells["x"] = V(v)})
    /\ (/\ last.op = "ctl.run_linear_regression"
        /\ Get(last.args).graph_check
        /\ Get(last.args).graph_type = "Simple Regression"
        /\ ~Get(last.args).fit_to_obs)
       => /\ last.res.ok =>
                /\ RangeWellFormed(Get(last.args).x_range_text)
                /\ LET xp == Get(last.res.val.fig).x_plot
                       parts == SplitComma(Strip(Get(last.args).x_range_text))
                   IN  /\ xp.kind = "linspace"
                       /\ xp.n = 100
                       /\ xp.first = PyFloat(Strip(parts[1])).val
                       /\ xp.last = PyFloat(Strip(parts[2])).val
          /\ ~RangeWellFormed(Get(last.args).x_range_text)
                => ~last.res.ok /\ IsNone(last.res.val)

\* The controller drew the plot on the grid of the range text '0,4'
GridPlotted ==
    /\ last.op = "ctl.run_linear_regression"
    /\ Get(last.args).x_range_text = <<"0", ",", "4">>
    /\ last.res.ok
    /\ ~IsNone(last.res.val.fig)
    /\ Get(last.res.val.fig).kind = "Simple Regression"
    /\ Get(last.res.val.fig).x_plot.kind = "linspace"
    /\ Get(last.res.val.fig).x_plot.last = Num(4, 1)

(***************************************************************************)
(* Regression calls on datasets with missing values in any column, with    *)
(* one or two independent variables and either plot.                       *)
(***************************************************************************)
InitRows ==
    /\ state \in {AppState(Some(d)) : d \in
           DataFrames(RegDtype, [y |-> {NaN, V(2)}, x |-> {NaN, V(1), V(3)},
                                 z |-> {NaN, V(1)}], MaxRows)}
    /\ inp \in [graph_check : {TRUE},
                graph_type : {"Simple Regression", "Observed vs Predicted"},
                independent_vars : {<<"x">>, <<"x", "z">>},
                fit_to_obs : {TRUE}, formula_check : {FALSE},
                fit_raises : {FALSE}, x_range_text : {<<>>}]
    /\ last = NoCall
    /\ core_files = NoCoreFiles
    /\ ui = NoUi

SpecRows == InitRows /\ [][NextReg]_vars

\* The labels of the rows of the session's dataset in which the dependent
\* column and every selected independent column hold a value
CompleteRows ==
    LET rows == Get(state.df).rows
        selected == Get(last.args).independent_vars
    IN  {rows[i].idx : i \in {k \in 1..Len(rows) :
            /\ rows[k].cells["y"] # NaN
            /\ \A j \in 1..Len(selected) : rows[k].cells[selected[j]] # NaN}}

\* The design the fit was entered with
FittedDesign ==
    IF last.op = "core.run_linear_regression" THEN Get(last.res.handed)
    ELSE Get(Get(last.res.handed).design)

\* C17: the fit is entered with exactly the rows complete in the dependent
\* and the selected independent columns, whatever the other columns hold;
\* the plots are drawn on those rows with the values they hold; with no
\* complete row the call fails with a ValueError before the fit.
FitsCompleteRowsOnly ==
    last.op \in RegOps =>
        /\ CompleteRows = {} =>
               /\ ~last.res.ok
               /\ last.res.exc = "ValueError"
               /\ "ols_fit" \notin last.res.fx
        /\ "ols_fit" \in last.res.fx =>
               /\ {FittedDesign.rows[i] : i \in 1..Len(FittedDesign.rows)}
                      = CompleteRows
               /\ Len(FittedDesign.rows) = Cardinality(CompleteRows)
        /\ (last.res.ok /\ ~IsNone(last.res.val.fig)) =>
               LET fig == Get(last.res.val.fig)
                   rows == Get(state.df).rows
               IN  IF fig.kind = "Observed vs Predicted"
                   THEN {fig.rows[i] : i \in 1..Len(fig.rows)} = CompleteRows
                   ELSE \A v \in {1, 3} :
                            Cardinality({i \in 1..Len(fig.x_plot.vals) :
                                            fig.x_plot.vals[i] = Num(v, 1)})
                                = Cardinality({i \in 1..Len(rows) :
                                      /\ rows[i].idx \in CompleteRows
                                      /\ rows[i].cells["x"] = V(v)})

\* A row with a value missing only in an unselected column was fitted, and
\* a row with a selected value missing was dropped
UnselectedGapKept ==
    /\ last.op = "core.run_linear_regression"
    /\ "ols_fit" \in last.res.fx
    /\ Get(last.args).independent_vars = <<"x">>
    /\ Len(Get(state.df).rows) = 2
    /\ Get(state.df).rows[1].cells["z"] = NaN
    /\ Get(state.df).rows[2].cells["x"] = NaN
    /\ FittedDesign.rows = <<Get(state.df).rows[1].idx>>

(***************************************************************************)
(* The controllers and the session object, over the calls of SpecData.     *)
(***************************************************************************)
\* A session object with nothing in it but the display precision
PrecisionOnly(st) ==
    [df |-> None, filtered_df |-> None, export_table |-> None,
     export_figure |-> None, display_precision |-> st.display_precision]

\* The recorded controller call made again with the session object st
CalledAgain(call, st) ==
    LET args == Get(call.args)
    IN  IF call.op = "ctl.run_descriptive_statistics"
        THEN CtlRunDescriptive(st, args.df, args.a, FALSE)
        ELSE IF call.op = "ctl.run_hypothesis_testing"
        THEN CtlRunHypothesis(st, args.df, args.a, HypoEnv)
        ELSE CtlRunLinearRegression(st, args.df, args.filtered_df, args.a,
                                    FALSE)

\* C19: a step of a controller (the regression controller's step includes
\* the core routine it calls) leaves every field of the session object, the
\* datasets in it included, as it was, whether the call succeeded or
\* failed; and the call's outcome is the one it has on a session object
\* holding nothing but the display precision.
ControllersReadOnly ==
    /\ [][(last' # last /\ last'.op \in ControllerOps) => state' = state]_vars
    /\ [](last.op \in ControllerOps
              => last.res = CalledAgain(last, PrecisionOnly(state)))

\* A controller ran on a session that holds a filtered dataset and an
\* exported table, and failed
FailedOnFullSession ==
    /\ last.op \in ControllerOps
    /\ ~last.res.ok
    /\ ~IsNone(state.filtered_df)
    /\ ~IsNone(state.export_table)

\* C20: whenever the regression controller finds a dataset to work on, it
\* is the dataset the tabs of the other analyses hand their controllers in
\* the same session state: the filtered one when there is one, else the
\* loaded one.
RegressionMirrorsTabs ==
    last.op = "ctl.run_linear_regression" =>
        LET args == Get(last.args)
            Same(sel) == sel.ok => Some(sel.val) = TabDataframe(args)
        IN  Same(_select_working_dataframe(args.df, args.filtered_df))

(***************************************************************************)
(* The run callback of the Hypothesis Testing tab, over SpecHypo.          *)
(***************************************************************************)
\* C21: every run of the Hypothesis Testing tab returns its four updates
\* and raises nothing; the table is shown and is the table kept for
\* export, the error table with the controller's message when the run
\* failed and the controller's table otherwise; the plot and its download
\* row are shown exactly when there is a figure, the controller's, which is
\* the figure kept for export, None after a failure or a run without one.
HypothesisRunShowsExport ==
    last.op = "hypothesis.on_run" =>
        LET shown == last.res.val
            args == Get(last.args)
            unrun == IsNone(args.df) \/ IsNone(args.a.numeric_col)
                         \/ args.a.numeric_col = Some("")
            Told(r) ==
                IF unrun \/ ~r.ok
                THEN /\ Get(shown.output_table.value).kind = "Error"
                     /\ ~unrun => Get(shown.output_table.value).message = r.err
                     /\ IsNone(shown.output_plot.value)
                ELSE /\ shown.output_table.value = r.val.table
                     /\ shown.output_plot.value = r.val.fig
        IN  /\ last.res.ok
            /\ shown.output_table.visible
            /\ ~IsNone(shown.output_table.value)
            /\ state.export_table = shown.output_table.value
            /\ state.export_figure = shown.output_plot.value
            /\ shown.output_plot.visible = ~IsNone(shown.output_plot.value)
            /\ shown.fig_download_row.visible = ~IsNone(shown.output_plot.value)
            /\ Told(IF unrun THEN Ok(None)
                    ELSE CtlRunHypothesis(state, args.df, args.a,
                             [raises |-> inp.raises, fig |-> inp.fig]))

\* A run of the tab failed in the controller and shows the error table
\* with no plot
HypothesisErrorShown ==
    /\ last.op = "hypothesis.on_run"
    /\ last.res.fx # {}
    /\ Get(last.res.val.output_table.value).kind = "Error"
    /\ ~last.res.val.fig_download_row.visible
    /\ IsNone(state.export_figure)

\* C24: a controller call that does not ask for the Simple Regression
\* graph on a caller range (graph requested, type Simple Regression,
\* fit_to_obs false) hands the core routine no x_vector, and made again with
\* any other range text, blank, malformed or well-formed, it has the same
\* outcome; a call that does ask for it hands on the grid of its range
\* text, which is then well-formed, or nothing when the text is blank.
RangeTextReadOnlyWhenNeeded ==
    last.op = "ctl.run_linear_regression" =>
        LET a == Get(last.args)
            needed == /\ a.graph_check
                      /\ a.graph_type = "Simple Regression"
                      /\ ~a.fit_to_obs
        IN  IF needed
            THEN ~IsNone(last.res.handed) =>
                     IF Strip(a.x_range_text) = <<>>
                     THEN IsNone(Get(last.res.handed).x_vector)
                     ELSE /\ RangeWellFormed(a.x_range_text)
                          /\ ~IsNone(Get(last.res.handed).x_vector)
            ELSE /\ ~IsNone(last.res.handed) =>
                        IsNone(Get(last.res.handed).x_vector)
                 /\ \A text \in {<<>>, <<"x">>, <<"4", ",", "0">>,
                                 <<"0", ",", "4">>} :
                        last.res = CtlRunLinearRegression(state, state.df,
                                       state.filtered_df,
                                       [a EXCEPT !.x_range_text = text],
                                       inp.fit_raises)

\* A call that did not need the range went through with a malformed text
MalformedRangeIgnored ==
    /\ last.op = "ctl.run_linear_regression"
    /\ Get(last.args).x_range_text = <<"x">>
    /\ Get(last.args).fit_to_obs
    /\ Get(last.args).graph_type = "Simple Regression"
    /\ last.res.ok

(***************************************************************************)
(* ui/tabs: the layout handlers of the Statistical Inference, Hypothesis   *)
(* Testing and Linear Regression tabs.  gr.update(visible=..) is the       *)
(* BOOLEAN it sets; a change event runs every handler wired to it on the   *)
(* values the components hold once the change is made.                     *)
(***************************************************************************)
\* inference_tab.py
toggle_alpha_visibility(estimation_type_value) ==
    estimation_type_value # "Confidence Regions"

CiControlsAlwaysShown(estimation_type_value, add_ci_value) == TRUE

toggle_ci_controls(estimation_type_value, add_ci_value) ==
    IF estimation_type_value = "Confidence Regions" THEN add_ci_value
    ELSE TRUE

toggle_cr_controls(estimation_type_value, add_ci_value) ==
    LET is_cr == estimation_type_value = "Confidence Regions"
    IN  [cr_params_row |-> is_cr, mu_ci_source |-> is_cr /\ add_ci_value]

\* hypothesis_testing_tab.py: the nine updates in the order of the outputs
toggle_hypo_test(sel) ==
    LET Updates(mu0, alt, graph, corr, eqvar, cat, g1, g2, anova) ==
            [mu0_input |-> mu0, alternative_radio |-> alt,
             ttest_graph_option |-> graph, ttest_correction_check |-> corr,
             equal_var_dropdown |-> eqvar, category_group |-> cat,
             group1 |-> g1, group2 |-> g2, group_anova |-> anova]
    IN  IF sel = "One sample Student's t-test"
        THEN Updates(TRUE, TRUE, TRUE, FALSE, FALSE, FALSE, FALSE, FALSE, FALSE)
        ELSE IF sel = "Equal variance between two groups"
        THEN Updates(FALSE, FALSE, TRUE, FALSE, TRUE, TRUE, TRUE, TRUE, FALSE)
        ELSE IF sel = "Two samples Student's t-test"
        THEN Updates(FALSE, TRUE, TRUE, TRUE, FALSE, TRUE, TRUE, TRUE, FALSE)
        ELSE IF sel = "One-way ANOVA"
        THEN Updates(FALSE, FALSE, FALSE, FALSE, FALSE, TRUE, FALSE, FALSE, TRUE)
        ELSE Updates(FALSE, FALSE, FALSE, FALSE, FALSE, FALSE, FALSE, FALSE,
                     FALSE)

PlotTypeFollowsCheck(include_graph, sel) == include_graph

toggle_ttest_plot_type(include_graph, sel) ==
    include_graph /\ sel = "Two samples Student's t-test"

\* linear_regression_tab.py: the choices and the value of graph_dropdown
on_update_graph_choices(independent_vars) ==
    IF Len(independent_vars) = 1
    THEN [choices |-> {"Simple Regression", "Observed vs Predicted"},
          value |-> "Simple Regression"]
    ELSE [choices |-> {"Observed vs Predicted"},
          value |-> "Observed vs Predicted"]

\* The three tabs as build() lays them out
InitUi ==
    /\ state = AppState(None)
    /\ inp = None
    /\ last = NoCall
    /\ core_files = NoCoreFiles
    /\ ui = [inference |->
                 [estimation_type |-> "Confidence and Prediction Intervals",
                  cr_add_ci_box |-> TRUE, alpha_input |-> TRUE,
                  cr_params_row |-> FALSE, mu_ci_source |-> FALSE,
                  ci_controls |-> TRUE],
             hypothesis |->
                 [hypo_test_dropdown |-> "One sample Student's t-test",
                  ttest_graph_check |-> TRUE,
                  mu0_input |-> TRUE, alternative_radio |-> TRUE,
                  ttest_graph_option |-> TRUE,
                  ttest_correction_check |-> FALSE,
                  equal_var_dropdown |-> FALSE, category_group |-> FALSE,
                  group1 |-> TRUE, group2 |-> TRUE, group_anova |-> TRUE,
                  ttest_plot_type |-> FALSE, ttest_boots_sample |-> TRUE],
             regression |->
                 [independent_dropdown |-> <<>>,
                  choices |-> {"Simple Regression", "Observed vs Predicted"},
                  graph_dropdown |-> "Simple Regression"]]

\* estimation_type.change: toggle_cr_controls, toggle_ci_controls and
\* toggle_alpha_visibility
EstimationTypeChange ==
    /\ \E t \in EstimationTypes \ {ui.inference.estimation_type} :
          LET add_ci == ui.inference.cr_add_ci_box
          IN  ui' = [ui EXCEPT !.inference =
                  [estimation_type |-> t,
                   cr_add_ci_box |-> add_ci,
                   alpha_input |-> toggle_alpha_visibility(t),
                   cr_params_row |-> toggle_cr_controls(t, add_ci).cr_params_row,
                   mu_ci_source |-> toggle_cr_controls(t, add_ci).mu_ci_source,
                   ci_controls |-> toggle_ci_controls(t, add_ci)]]
    /\ UNCHANGED <<state, inp, last, core_files>>

\* cr_add_ci_box.change, the box being in the confidence-region row:
\* toggle_cr_controls and toggle_ci_controls
AddCiChange ==
    /\ ui.inference.cr_params_row
    /\ LET t == ui.inference.estimation_type
           add_ci == ~ui.inference.cr_add_ci_box
       IN  ui' = [ui EXCEPT !.inference =
               [@ EXCEPT !.cr_add_ci_box = add_ci,
                         !.cr_params_row = toggle_cr_controls(t, add_ci).cr_params_row,
                         !.mu_ci_source = toggle_cr_controls(t, add_ci).mu_ci_source,
                         !.ci_controls = toggle_ci_controls(t, add_ci)]]
    /\ UNCHANGED <<state, inp, last, core_files>>

\* hypo_test_dropdown.change: toggle_hypo_test and toggle_ttest_plot_type
HypoTestChange ==
    /\ \E sel \in (HypoTests \cup TwoGroupTests)
                      \ {ui.hypothesis.hypo_test_dropdown} :
          ui' = [ui EXCEPT !.hypothesis =
                  [f \in DOMAIN @ |->
                      IF f = "hypo_test_dropdown" THEN sel
                      ELSE IF f = "ttest_plot_type"
                      THEN toggle_ttest_plot_type(@.ttest_graph_check, sel)
                      ELSE IF f \in DOMAIN toggle_hypo_test(sel)
                      THEN toggle_hypo_test(sel)[f]
                      ELSE @[f]]]
    /\ UNCHANGED <<state, inp, last, core_files>>

\* ttest_graph_check.change, the box being in the graph-option row: the
\* slider follows the box, and toggle_ttest_plot_type
GraphCheckChange ==
    /\ ui.hypothesis.ttest_graph_option
    /\ LET check == ~ui.hypothesis.ttest_graph_check
       IN  ui' = [ui EXCEPT !.hypothesis =
               [@ EXCEPT !.ttest_graph_check = check,
                         !.ttest_boots_sample = check,
                         !.ttest_plot_type =
                             toggle_ttest_plot_type(check,
                                 ui.hypothesis.hypo_test_dropdown)]]
    /\ UNCHANGED <<state, inp, last, core_files>>

\* independent_dropdown.change: on_update_graph_choices
IndependentChange ==
    /\ \E vars_val \in {<<>>, <<"x">>, <<"z">>, <<"x", "z">>, <<"z", "x">>}
                           \ {ui.regression.independent_dropdown} :
          ui' = [ui EXCEPT !.regression =
                  [independent_dropdown |-> vars_val,
                   choices |-> on_update_graph_choices(vars_val).choices,
                   graph_dropdown |-> on_update_graph_choices(vars_val).value]]
    /\ UNCHANGED <<state, inp, last, core_files>>

\* The user picks another of the graph types on offer
GraphTypeChange ==
    /\ \E g \in ui.regression.choices \ {ui.regression.graph_dropdown} :
          ui' = [ui EXCEPT !.regression.graph_dropdown = g]
    /\ UNCHANGED <<state, inp, last, core_files>>

NextUi ==
    \/ EstimationTypeChange
    \/ AddCiChange
    \/ HypoTestChange
    \/ GraphCheckChange
    \/ IndependentChange
    \/ GraphTypeChange

SpecUi == InitUi /\ [][NextUi]_vars

\* C22: the confidence-region row is on screen iff the type is Confidence
\* Regions; the mu-CI-source radio iff it is and the Add-CI box is checked;
\* the CI controls are hidden iff it is and the box is unchecked; the
\* confidence-level textbox is hidden iff it is.
InferenceLayoutFollowsType ==
    LET tab == ui.inference
        regions == tab.estimation_type = "Confidence Regions"
    IN  /\ tab.cr_params_row <=> regions
        /\ tab.mu_ci_source <=> (regions /\ tab.cr_add_ci_box)
        /\ ~tab.ci_controls <=> (regions /\ ~tab.cr_add_ci_box)
        /\ ~tab.alpha_input <=> regions

\* Confidence Regions with the box unchecked: the CI controls are hidden
RegionsWithoutIntervals ==
    /\ ui.inference.estimation_type = "Confidence Regions"
    /\ ~ui.inference.cr_add_ci_box
    /\ ~ui.inference.ci_controls

\* C25: the null-mean input is on screen iff the one-sample t-test is
\* selected; the alternative radio iff a t-test is; the Welch checkbox iff
\* the two-sample t-test is; the variance-test dropdown iff the variance
\* test is; the category group iff the test is not the one-sample t-test;
\* the plot-type dropdown iff Include graph is checked and the two-sample
\* t-test is selected.
HypothesisLayoutFollowsTest ==
    LET tab == ui.hypothesis
        sel == tab.hypo_test_dropdown
    IN  /\ tab.mu0_input <=> sel = "One sample Student's t-test"
        /\ tab.alternative_radio
               <=> sel \in {"One sample Student's t-test",
                            "Two samples Student's t-test"}
        /\ tab.ttest_correction_check <=> sel = "Two samples Student's t-test"
        /\ tab.equal_var_dropdown <=> sel = "Equal variance between two groups"
        /\ tab.category_group <=> sel # "One sample Student's t-test"
        /\ tab.ttest_plot_type
               <=> (tab.ttest_graph_check
                    /\ sel = "Two samples Student's t-test")

\* The two-sample t-test with Include graph unchecked and checked again
PlotTypeOffered ==
    /\ ui.hypothesis.hypo_test_dropdown = "Two samples Student's t-test"
    /\ ui.hypothesis.ttest_graph_check
    /\ ui.hypothesis.ttest_plot_type
    /\ ui.hypothesis.ttest_correction_check

\* C23: Simple Regression is among the graph types on offer, or is the one
\* selected, only while exactly one independent variable is selected.
SimpleGraphOnlyWithOneVariable ==
    ("Simple Regression" \in ui.regression.choices
         \/ ui.regression.graph_dropdown = "Simple Regression")
    => Len(ui.regression.independent_dropdown) = 1

(***************************************************************************)
(* ui/tabs/linear_regression_tab.py: the run callback                      *)
(***************************************************************************)
\* on_run of the Linear Regression tab: the four updates it returns (table
\* row, summary, plot row, plot) and the new session.  The controller is
\* called with state as a positional argument; an exception of the call is
\* shown as an error text.
RegressionOnRun(st, a, fit_raises) ==
    LET Updates(summary, fig) ==
            [output_table_row |-> [visible |-> TRUE],
             output_table |-> [value |-> summary, visible |-> TRUE],
             output_plot_row |-> [visible |-> ~IsNone(fig)],
             output_plot |-> [value |-> fig, visible |-> ~IsNone(fig)]]
        Failed(message, fx, handed) ==
            [res |-> With(Ok(Updates(Some([kind |-> "Error",
                                           message |-> message]), None)),
                          fx, handed),
             state |-> st]
        Shown(r) ==
            IF ~r.ok THEN Failed(r.err, r.fx, r.handed)
            ELSE [res |-> With(Ok(Updates(Some(r.val.summary_html),
                                          r.val.fig)),
                               r.fx, r.handed),
                  state |-> [st EXCEPT !.export_table = Some(r.val.params)]]
        Called(positional, outcome) ==
            IF positional > 0
            THEN Raise("TypeError",
                       "run_linear_regression() takes 0 positional arguments")
            ELSE outcome
    IN  IF IsNone(st.df) THEN Failed("No dataset loaded.", {}, None)
        ELSE Shown(Called(1, CtlRunLinearRegression(st, st.df, st.filtered_df,
                                                    a, fit_raises)))

(***************************************************************************)
(* The four analysis tabs on one session object: runs and downloads in any *)
(* order.  ui holds, per tab, the updates its last finished run returned;  *)
(* a run that raises leaves the tab's components as they were.             *)
(***************************************************************************)
InitTabs ==
    /\ state \in {AppState(None), AppState(Some(OneRowFrame))}
    /\ inp \in [estimation_type : EstimationTypes, cr_add_ci : BOOLEAN,
                ci_raises : BOOLEAN, raises : BOOLEAN, fig : BOOLEAN]
    /\ last = NoCall
    /\ core_files = NoCoreFiles
    /\ ui = [hypothesis |-> InferenceUi(None, FALSE, None, FALSE),
             inference |-> InferenceUi(None, FALSE, None, FALSE),
             descriptive |-> [table |-> None, visible |-> FALSE],
             regression |->
                 [output_table_row |-> [visible |-> FALSE],
                  output_table |-> [value |-> None, visible |-> TRUE],
                  output_plot_row |-> [visible |-> FALSE],
                  output_plot |-> [value |-> None, visible |-> TRUE]]]

\* A tab's run: the call is recorded, the session it left is kept, and the
\* updates it returned, if it returned, are on screen
TabRun(tab, op, a, r) ==
    /\ Effect(op, a, r)
    /\ ui' = IF r.res.ok THEN [ui EXCEPT ![tab] = r.res.val] ELSE ui

TabsHypothesis ==
    /\ TabRun("hypothesis", "hypothesis.on_run", HypoArgs,
              HypothesisOnRun(state, HypoArgs,
                              [raises |-> inp.raises, fig |-> inp.fig]))
    /\ UNCHANGED <<inp, core_files>>

TabsInference ==
    /\ TabRun("inference", "inference.on_run",
              [InfArgs EXCEPT !.estimation_type = inp.estimation_type,
                              !.cr_add_ci = inp.cr_add_ci],
              InferenceOnRun(state,
                  [InfArgs EXCEPT !.estimation_type = inp.estimation_type,
                                  !.cr_add_ci = inp.cr_add_ci],
                  [NoRaise EXCEPT !.ci_raises = inp.ci_raises]))
    /\ UNCHANGED <<inp, core_files>>

TabsDescriptive ==
    /\ TabRun("descriptive", "descriptive.on_run", DescTabArgs,
              DescriptiveOnRun(state, DescTabArgs, inp.raises))
    /\ UNCHANGED <<inp, core_files>>

TabsRegression ==
    /\ TabRun("regression", "regression.on_run", RegArgs,
              RegressionOnRun(state, RegArgs, inp.raises))
    /\ UNCHANGED <<inp, core_files>>

\* on_download / on_download_table of a tab whose download row is on
\* screen: state.export_table is handed to dataframe_to_csv
TabsDownloadTable ==
    /\ \E tab \in {"hypothesis", "inference", "descriptive"} :
          /\ IF tab = "descriptive" THEN ui.descriptive.visible
             ELSE ui[tab].download_row.visible
          /\ last' = Call("on_download_table", tab,
                          With(Ok(None), {"dataframe_to_csv"},
                               state.export_table))
    /\ UNCHANGED <<state, inp, core_files, ui>>

\* on_download_figure of a tab whose figure row is on screen:
\* state.export_figure is handed to figure_to_png
TabsDownloadFigure ==
    /\ \E tab \in {"hypothesis", "inference"} :
          /\ ui[tab].fig_download_row.visible
          /\ last' = Call("on_download_figure", tab,
                          With(Ok(None), {"figure_to_png"},
                               state.export_figure))
    /\ UNCHANGED <<state, inp, core_files, ui>>

NextTabs ==
    \/ TabsHypothesis
    \/ TabsInference
    \/ TabsDescriptive
    \/ TabsRegression
    \/ TabsDownloadTable
    \/ TabsDownloadFigure

SpecTabs == InitTabs /\ [][NextTabs]_vars

\* What the tab shows as its table
ShownTable(tab) ==
    IF tab = "descriptive" THEN ui.descriptive.table
    ELSE ui[tab].output_table.value

\* C26: a download exports what the tab it belongs to shows: the table its
\* last run returned, the figure its last run returned, and never None.
DownloadExportsShown ==
    /\ last.op = "on_download_table" =>
           /\ ~IsNone(last.res.handed)
           /\ last.res.handed = ShownTable(Get(last.args))
    /\ last.op = "on_download_figure" =>
           /\ ~IsNone(last.res.handed)
           /\ last.res.handed = ui[Get(last.args)].output_plot.value

\* C27: a run of the Linear Regression or of the Descriptive Statistics
\* tab on inputs the controller, called by keyword, has a result for,
\* returns, shows the controller's result and keeps the controller's table
\* in state.export_table.
TabRunReachesController ==
    /\ (/\ last.op = "regression.on_run"
        /\ CtlRunLinearRegression(state, state.df, state.filtered_df,
                                  Get(last.args), inp.raises).ok)
       => LET r == CtlRunLinearRegression(state, state.df, state.filtered_df,
                                          Get(last.args), inp.raises)
          IN  /\ last.res.ok
              /\ last.res.val.output_table.value = Some(r.val.summary_html)
              /\ state.export_table = Some(r.val.params)
    /\ (/\ last.op = "descriptive.on_run"
        /\ ~IsNone(state.df)
        /\ CtlRunDescriptive(state, state.df, DescArgs, inp.raises).ok)
       => /\ last.res.ok
          /\ ~IsNone(last.res.val.table)
          /\ state.export_table = last.res.val.table

\* C29: a run of the Statistical Inference tab that raises leaves
\* state.export_table and state.export_figure, and the rest of the session
\* object, as they were before the run.
FailedInferenceKeepsExport ==
    [][(last' # last /\ last'.op = "inference.on_run" /\ ~last'.res.ok)
           => state' = state]_vars

(***************************************************************************)
(* core/data_stats.py: the column reclassification, on a session object    *)
(* that has the two column lists and the active filters; a call gives the  *)
(* (flag, message) pair it returns and the session it leaves.              *)
(***************************************************************************)
\* list.remove(x): the list without the first x
ListRemove(s, x) ==
    LET k == CHOOSE i \in 1..Len(s) :
                 s[i] = x /\ \A j \in 1..(i - 1) : s[j] # x
    IN  SubSeq(s, 1, k - 1) \o SubSeq(s, k + 1, Len(s))

AppendOnlyCategorical(st, column) ==
    IF ~IsNone(column) /\ column # Some("")
       /\ \E i \in 1..Len(st.numeric_cols) : st.numeric_cols[i] = Get(column)
    THEN [res |-> Ok(<<TRUE, "reclassified as categorical.">>),
          state |-> [st EXCEPT !.categorical_cols = Append(@, Get(column)),
                               !.active_filters = {}]]
    ELSE [res |-> Ok(<<FALSE, "is not numeric.">>), state |-> st]

reclassify_as_categorical(st, column) ==
    IF ~IsNone(column) /\ column # Some("")
       /\ \E i \in 1..Len(st.numeric_cols) : st.numeric_cols[i] = Get(column)
    THEN [res |-> Ok(<<TRUE, "reclassified as categorical.">>),
          state |-> [st EXCEPT !.numeric_cols = ListRemove(@, Get(column)),
                               !.categorical_cols = Append(@, Get(column)),
                               !.active_filters = {}]]
    ELSE [res |-> Ok(<<FALSE, "is not numeric.">>), state |-> st]

reclassify_as_numeric(st, column) ==
    IF ~IsNone(column) /\ column # Some("")
       /\ \E i \in 1..Len(st.categorical_cols) :
              st.categorical_cols[i] = Get(column)
    THEN [res |-> Ok(<<TRUE, "reclassified as numeric.">>),
          state |-> [st EXCEPT !.categorical_cols = ListRemove(@, Get(column)),
                               !.numeric_cols = Append(@, Get(column)),
                               !.active_filters = {}]]
    ELSE [res |-> Ok(<<FALSE, "is not categorical.">>), state |-> st]

\* The columns a, b, c are split over the two lists, in any order, with or
\* without a filter on a
InitCols ==
    /\ \E numeric \in {<<>>, <<"a">>, <<"a", "b">>, <<"b", "a">>,
                       <<"a", "b", "c">>, <<"c", "a", "b">>},
          filters \in {{}, {"a"}} :
          state = [df |-> None, filtered_df |-> None,
                   numeric_cols |-> numeric,
                   categorical_cols |->
                       SelectSeq(<<"c", "b", "a">>,
                           LAMBDA x : \A i \in 1..Len(numeric) : numeric[i] # x),
                   active_filters |-> filters,
                   export_table |-> None, export_figure |-> None,
                   display_precision |-> DEFAULT_DISPLAY_PRECISION]
    /\ inp = None
    /\ last = NoCall
    /\ core_files = NoCoreFiles
    /\ ui = NoUi

ColsToCategorical ==
    /\ \E column \in {None, Some(""), Some("a"), Some("b"), Some("c"),
                      Some("d")} :
          Effect("reclassify_as_categorical", column,
                 reclassify_as_categorical(state, column))
    /\ UNCHANGED <<inp, core_files, ui>>

ColsToNumeric ==
    /\ \E column \in {None, Some(""), Some("a"), Some("b"), Some("c"),
                      Some("d")} :
          Effect("reclassify_as_numeric", column,
                 reclassify_as_numeric(state, column))
    /\ UNCHANGED <<inp, core_files, ui>>

NextCols == ColsToCategorical \/ ColsToNumeric

SpecCols == InitCols /\ [][NextCols]_vars

\* The columns in a list
ColsIn(s) == {s[i] : i \in 1..Len(s)}

\* C28: the two column lists stay disjoint and free of duplicates and
\* together hold the columns a, b, c; a call naming a column of its source
\* list returns True, moves that column and no other to the other list and
\* empties active_filters; any other call (a column not in the source list,
\* '' or None) returns False and leaves every field of the session as it
\* was.
ReclassifyKeepsPartition ==
    /\ [](/\ ColsIn(state.numeric_cols) \cap ColsIn(state.categorical_cols) = {}
          /\ Len(state.numeric_cols) = Cardinality(ColsIn(state.numeric_cols))
          /\ Len(state.categorical_cols)
                 = Cardinality(ColsIn(state.categorical_cols))
          /\ ColsIn(state.numeric_cols) \cup ColsIn(state.categorical_cols)
                 = {"a", "b", "c"})
    /\ [][last' # last =>
            LET column == Get(last'.args)
                to_cat == last'.op = "reclassify_as_categorical"
                source == IF to_cat THEN ColsIn(state.numeric_cols)
                          ELSE ColsIn(state.categorical_cols)
                named == ~IsNone(column) /\ Get(column) \in source
            IN  IF named
                THEN /\ last'.res.val[1] = TRUE
                     /\ ColsIn(state'.numeric_cols) =
                            IF to_cat
                            THEN ColsIn(state.numeric_cols) \ {Get(column)}
                            ELSE ColsIn(state.numeric_cols) \cup {Get(column)}
                     /\ ColsIn(state'.categorical_cols) =
                            IF to_cat
                            THEN ColsIn(state.categorical_cols)
                                     \cup {Get(column)}
                            ELSE ColsIn(state.categorical_cols) \ {Get(column)}
                     /\ state'.active_filters = {}
                     /\ state' = [state EXCEPT
                                     !.numeric_cols = state'.numeric_cols,
                                     !.categorical_cols = state'.categorical_cols,
                                     !.active_filters = {}]
                ELSE /\ last'.res.val[1] = FALSE
                     /\ state' = state]_vars

\* A column was moved back to the numeric list and the filter on it is gone
MovedBackToNumeric ==
    /\ last.op = "reclassify_as_numeric"
    /\ last.res.val[1] = TRUE
    /\ Get(last.args) = Some("a")
    /\ state.numeric_cols = <<"b", "c", "a">>
    /\ state.active_filters = {}

=============================================================================
